---- MODULE Spec2Model ----
(***************************************************************************)
(* Request serialisation and browser lifecycle of weibo-proxy.             *)
(*                                                                         *)
(* The repository holds three revisions of the queued server:              *)
(*   "drain"    src/server.js 1-502      drain-and-destroy                 *)
(*   "chained"  src/server.js 504-1133   setImmediate-chained queue        *)
(*   "while"    src/docker-compose.yml   while-loop queue, idle-timeout    *)
(* A behaviour runs one of them (variant).                                 *)
(*                                                                         *)
(* Node runs one call chain at a time, up to its next await on real I/O    *)
(* or on a timer.  A step of the model is one event (a request, a settled  *)
(* I/O call, a timer, a signal) together with everything the code runs     *)
(* until every chain is suspended again.  The code between two suspension  *)
(* points is a function on the program state s, a record of the variables; *)
(* s.cur is the chain that is executing, Null once it is suspended or has  *)
(* ended.                                                                  *)
(***************************************************************************)
EXTENDS Naturals, Sequences, FiniteSets

MaxTasks == 3      \* requests submitted in one behaviour
MaxFaults == 1     \* faults in one behaviour: failed I/O calls, signals
NCallers == 3      \* concurrent callers of init() in InitSpec
MaxPolls == 2      \* rounds of gracefulShutdown's wait loop before maxWait
                   \* has elapsed (30 in the code, scaled down)
GraceTasks == 2    \* requests submitted in one behaviour of GraceSpec
MaxCalls == 3      \* calls of the manager's methods in ManagerSpec
MaxLog == 2        \* SaveSpec: the auto-save timers fire while the log of the
                   \* saves is shorter
SweepTasks == 2    \* requests submitted in one behaviour of SweepSpec
MaxSweeps == 1     \* sweep callbacks whose cleanupContext() is still pending
MaxTriggers == 2   \* gracefulShutdown invocations under way at a time
MaxRetries == 2    \* const maxRetries = 2 of the page operations

VARIABLES
  variant,          \* which revision runs
  queue,            \* RequestQueue.queue (task ids, head first)
  processing,       \* RequestQueue.processing
  currentOperation, \* RequestQueue.currentOperation (task id, 0 = null)
  immediates,       \* pending setImmediate(processQueue) callbacks
  browser,          \* BrowserManager.browser (handle id, 0 = null)
  context,          \* BrowserManager.context (handle id, 0 = null)
  isInitializing,   \* BrowserManager.isInitializing
  isLoggedIn,       \* the login belief
  cleanupInterval,  \* idle-timeout manager: cleanup timer armed
  autoSaveInterval, \* idle-timeout manager: auto-save timer armed
  sessionFile,      \* SESSION_FILE exists on disk
  chains,           \* the suspended call chains: position, callers, locals
  exited,           \* process.exit was called
  alive,            \* browser processes launched and not closed
  ctxOpen,          \* contexts created and not closed
  ctxOwner,         \* ctxOwner[c]: the browser context c was created on
  nBrowsers,        \* browsers launched so far (handle ids 1..nBrowsers)
  launchCalls,      \* chromium.launch calls made
  newCtxCalls,      \* browser.newContext calls made
  faults,           \* faults so far (failed I/O calls, signals)
  nEnq,             \* tasks enqueued so far (task ids 1..nEnq, in push order)
  batch,            \* processQueue invocations that passed their guard
  started,          \* tasks in the order their operations began
  outcome,          \* outcome[t]: "pending", "fulfilled" or "rejected"
  settles,          \* settles[t]: resolve/reject callbacks invoked for t
  dequeues,         \* dequeues[t]: times t was shifted off the queue
  snap,             \* snap[t]: what the manager looked like when t began
  initFail,         \* heads of the queue when processQueue caught a failed init()
  nCalls,           \* InitSpec: init() calls made
  hres,             \* InitSpec: how each init() call ended, in order
  kind,             \* kind[t]: what the operation of task t does
  idle,             \* more than idleTimeout has passed since lastActivity
  resumed,          \* more than 10 minutes have passed since lastCleanupRun
  loginPage,        \* a login page is open
  saved,            \* open contexts on which a snapshot save was attempted
  evicted,          \* contexts closed by the idle sweep
  atSignal,         \* <<nEnq>> at the first shutdown signal, <<>> before it
  calls,            \* ManagerSpec: the methods called since the manager was
                    \* last at rest
  traced,           \* what is logged: "save" in SaveSpec, "load" in LoadSpec
  unhandled,        \* the process events 'uncaughtException' and
                    \* 'unhandledRejection' emitted so far
  scanned,          \* the login page has left passport.weibo.com (the scan is confirmed)
  pages,            \* the open pages other than the login page: context, task
  clicks,           \* clicks[t]: clicks on the send button by task t
  quiet,            \* more than idleTimeout has passed since the latest task began
  loginCtx,         \* the context the login page was opened in
  refreshed,        \* lastActivity was refreshed since the latest task began
  timers,           \* the intervals set and not cleared: cleanup timers, auto-save timers
  dangling,         \* a cleanup() has returned with a timer armed
  http,             \* the latest request the middleware answered with its status, in a sequence
  saveLog           \* the log: the fs.writeJson calls of the session saves
                    \* and the returns of saveSessionNow(); the returns of
                    \* loadSession() and the newContext calls after them

vars == <<variant, queue, processing, currentOperation, immediates, browser,
          context, isInitializing, isLoggedIn, cleanupInterval,
          autoSaveInterval, sessionFile, chains, exited, alive, ctxOpen,
          ctxOwner, nBrowsers, launchCalls, newCtxCalls, faults, nEnq,
          batch, started, outcome, settles, dequeues, snap, initFail, nCalls,
          hres, kind, idle, resumed, loginPage, saved, evicted,
          atSignal, calls, traced, unhandled, scanned,
          pages,
          clicks,
          quiet,
          loginCtx,
          refreshed,
          timers,
          dangling,
          http,
          saveLog>>

Tasks == 1..MaxTasks
Chains == DOMAIN chains
Null == 0

NoSnap == [b |-> Null, c |-> Null, cleaning |-> FALSE, draining |-> FALSE,
           batch |-> 0]

\* the program state as one record; cur = Null: the event loop is idle
St ==
  [variant |-> variant, queue |-> queue, processing |-> processing,
   currentOperation |-> currentOperation, immediates |-> immediates,
   browser |-> browser, context |-> context,
   isInitializing |-> isInitializing, isLoggedIn |-> isLoggedIn,
   cleanupInterval |-> cleanupInterval, autoSaveInterval |-> autoSaveInterval,
   sessionFile |-> sessionFile, chains |-> chains, exited |-> exited,
   alive |-> alive, ctxOpen |-> ctxOpen, ctxOwner |-> ctxOwner,
   nBrowsers |-> nBrowsers, launchCalls |-> launchCalls,
   newCtxCalls |-> newCtxCalls, faults |-> faults, nEnq |-> nEnq,
   batch |-> batch, started |-> started, outcome |-> outcome,
   settles |-> settles, dequeues |-> dequeues, snap |-> snap,
   initFail |-> initFail, nCalls |-> nCalls,
   hres |-> hres, kind |-> kind, idle |-> idle, resumed |-> resumed,
   loginPage |-> loginPage, saved |-> saved,
   evicted |-> evicted, atSignal |-> atSignal, calls |-> calls,
   traced |-> traced, unhandled |-> unhandled, scanned |-> scanned,
   pages |-> pages,
   clicks |-> clicks,
   quiet |-> quiet,
   loginCtx |-> loginCtx,
   refreshed |-> refreshed,
   timers |-> timers,
   dangling |-> dangling,
   http |-> http,
   saveLog |-> saveLog,
   cur |-> Null]

\* the state s becomes the next state
Commit(s) ==
  /\ variant' = s.variant /\ queue' = s.queue /\ processing' = s.processing
  /\ currentOperation' = s.currentOperation /\ immediates' = s.immediates
  /\ browser' = s.browser /\ context' = s.context
  /\ isInitializing' = s.isInitializing /\ isLoggedIn' = s.isLoggedIn
  /\ cleanupInterval' = s.cleanupInterval
  /\ autoSaveInterval' = s.autoSaveInterval
  /\ sessionFile' = s.sessionFile /\ chains' = s.chains /\ exited' = s.exited
  /\ alive' = s.alive /\ ctxOpen' = s.ctxOpen /\ ctxOwner' = s.ctxOwner
  /\ nBrowsers' = s.nBrowsers /\ launchCalls' = s.launchCalls
  /\ newCtxCalls' = s.newCtxCalls /\ faults' = s.faults /\ nEnq' = s.nEnq
  /\ batch' = s.batch /\ started' = s.started /\ outcome' = s.outcome
  /\ settles' = s.settles /\ dequeues' = s.dequeues /\ snap' = s.snap
  /\ initFail' = s.initFail /\ nCalls' = s.nCalls
  /\ hres' = s.hres /\ kind' = s.kind /\ idle' = s.idle
  /\ resumed' = s.resumed /\ loginPage' = s.loginPage /\ saved' = s.saved
  /\ evicted' = s.evicted /\ atSignal' = s.atSignal /\ calls' = s.calls
  /\ traced' = s.traced /\ unhandled' = s.unhandled
  /\ scanned' = s.scanned
  /\ pages' = s.pages
  /\ clicks' = s.clicks
  /\ quiet' = s.quiet
  /\ loginCtx' = s.loginCtx
  /\ refreshed' = s.refreshed
  /\ timers' = s.timers
  /\ dangling' = s.dangling
  /\ http' = s.http
  /\ saveLog' = s.saveLog

\* ---------------------------------------------------------------- chains
\* a call chain: pc its position, stk the labels its callers continue at,
\* task the task of a processQueue frame, h the handle an I/O call was made on,
\* w whether its init() call went through the wait loop, arg the argument of
\* its cleanup() call, n the rounds of its loop so far
Chain(l, k) == [pc |-> l, stk |-> k, task |-> Null, h |-> Null, w |-> FALSE,
                arg |-> FALSE, n |-> 0]
Without(cs, i) == [k \in 1..(Len(cs) - 1) |-> IF k < i THEN cs[k] ELSE cs[k + 1]]

\* a new chain starts executing at l, its callers continuing at the labels k
Spawn(s, l, k) ==
  [s EXCEPT !.chains = Append(s.chains, Chain(l, k)), !.cur = Len(s.chains) + 1]
\* chain i goes on executing at l
Goto(s, i, l) == [s EXCEPT !.chains[i].pc = l, !.cur = i]
\* chain i enters the wait loop of init(): a creation is in flight
Wait(s, i, l) ==
  [s EXCEPT !.chains[i].pc = l, !.chains[i].w = TRUE, !.cur = Null]
\* chain i awaits an I/O call made on handle hd, to resume at l
Await(s, i, l, hd) ==
  [s EXCEPT !.chains[i].pc = l, !.chains[i].h = hd, !.cur = Null]
\* chain i calls callee, to continue at retl when it returns
Call(s, i, callee, retl) ==
  [s EXCEPT !.chains[i].pc = callee,
            !.chains[i].stk = <<retl>> \o s.chains[i].stk, !.cur = i]
\* chain i calls cleanup(a)
CallArg(s, i, callee, retl, a) ==
  [Call(s, i, callee, retl) EXCEPT !.chains[i].arg = a]
\* a new chain starts with a call of cleanup(a)
SpawnArg(s, l, k, a) ==
  [Spawn(s, l, k) EXCEPT !.chains[Len(s.chains) + 1].arg = a]
\* chain i ends
Finish(s, i) == [s EXCEPT !.chains = Without(s.chains, i), !.cur = Null]
\* the current function of chain i returns; with its outermost frame the
\* chain ends
Return(s, i) ==
  IF s.chains[i].stk = <<>>
    THEN Finish(s, i)
    ELSE [s EXCEPT !.chains[i].pc = Head(s.chains[i].stk),
                   !.chains[i].stk = Tail(s.chains[i].stk),
                   !.chains[i].h = Null, !.cur = i]
\* the handler a rejected call lands in, by the label the call would return to
CatchOf(l) ==
  CASE l = "pq_loop" -> "pq_catch"
    [] l = "np_ready" -> "op_catch"
    [] l = "q_ready" -> "q_catch"
    [] OTHER -> "caller_failed"
Throw(s, i) ==
  [s EXCEPT !.chains[i].pc = CatchOf(Head(s.chains[i].stk)),
            !.chains[i].stk = Tail(s.chains[i].stk),
            !.chains[i].h = Null, !.cur = i]

\* chain i is suspended at label l and the event loop delivers its event
Resumes(i, l) == ~exited /\ chains[i].pc = l

\* a cleanup() call is between its first close and its return
CleaningIn(cs) == \E i \in DOMAIN cs : cs[i].pc \in {"cl_ctx", "cl_br"}
\* the cleanup(true) started by a processQueue that emptied the queue is
\* in progress (that chain has no caller: processQueue is not awaited)
DrainingIn(cs) ==
  \E i \in DOMAIN cs : cs[i].pc \in {"cl_ctx", "cl_br"} /\ cs[i].stk = <<>>
Running == {i \in Chains : chains[i].pc = "pq_op"}

\* ------------------------------------------------------------ RequestQueue
\* (a shift() that took the newest element instead; C1 must tell them apart)
ShiftIndexLast(q) == Len(q)

\* Array.prototype.shift takes the element at the head
ShiftIndex(q) == 1
Shifted(q) == q[ShiftIndex(q)]
\* (a shift() that left the array as it was; C4 must tell them apart)
AfterShiftKeeps(q) == q
AfterShift(q) == [k \in 1..(Len(q) - 1) |-> IF k < ShiftIndex(q) THEN q[k] ELSE q[k + 1]]

\* what the manager looks like at the moment an operation is invoked
SnapNow(s) == [b |-> s.browser, c |-> s.context,
               cleaning |-> CleaningIn(s.chains),
               draining |-> DrainingIn(s.chains), batch |-> s.batch]

\* isContextAlive(): this.context && this.browser && browser.isConnected()
IsContextAlive(s) ==
  s.context # Null /\ s.browser # Null /\ s.browser \in s.alive

\* the log of the session saves (what = "save"), of the session loads
\* ("load") or of the login checks ("status"), when it is kept
Logged(s, what, e) ==
  IF what \in s.traced THEN [s EXCEPT !.saveLog = Append(@, e)] ELSE s

\* the log of the login checks: that the checkLoginStatus of chain i began
\* (ev = "begin"), returned v ("fulfil") or threw ("reject"), with the
\* login belief at that moment
StatusLogged(s, i, e, val) ==
  IF s.kind[s.chains[i].task] = "status"
    THEN Logged(s, "status", [ev |-> e, v |-> val, timer |-> FALSE,
                              li |-> s.isLoggedIn,
                              live |-> IsContextAlive(s)])
    ELSE s

\* checkLoginStatus of the drain-and-destroy server:
\* const page = await browserManager.context.newPage(), a TypeError
\* when context is null
ST_Begin(s, i) ==
  IF s.context = Null THEN Goto(s, i, "st_throw")
                      ELSE Await(s, i, "st_page", s.context)

\* the task of chain i has opened a page that is not the login page, in
\* the context its newPage() call was made on (followed when "pages" is
\* traced)
PageOpened(s, i) ==
  IF "pages" \in s.traced
    THEN [s EXCEPT !.pages = Append(@, [c |-> s.chains[i].h,
                                        t |-> s.chains[i].task])]
    ELSE s

\* the task of chain i has closed the page it opened last
PageClosed(s, i) ==
  LET own == {k \in DOMAIN s.pages : s.pages[k].t = s.chains[i].task} IN
    IF own = {} THEN s
    ELSE LET k == CHOOSE j \in own : \A m \in own : m <= j IN
           [s EXCEPT !.pages = [j \in 1..(Len(@) - 1) |->
                                  IF j < k THEN @[j] ELSE @[j + 1]]]

\* the log of the scan polls: checkScanStatus returns r; li: it found the
\* belief true; inspected: it looked at the login page
ScanLogged(s, r, cached, looked) ==
  Logged(s, "scan", [ev |-> "scan", status |-> r, li |-> cached,
                     inspected |-> looked])

\* checkScanStatus of the drain-and-destroy server, up to its first await:
\* the cached branch; no login page; the URL of the login page
SC_Begin(s, i) ==
  IF s.isLoggedIn
    THEN Goto(ScanLogged(s, "success", TRUE, FALSE), i, "op_ok")
  ELSE IF ~s.loginPage
    THEN Goto(ScanLogged(s, "waiting", FALSE, FALSE), i, "op_ok")
  ELSE IF s.scanned
    THEN Await([s EXCEPT !.isLoggedIn = TRUE], i, "sc_lp_ok", s.context)
  ELSE Await(s, i, "sc_eval", s.context)

\* a login page is held and not closed (a page is closed with its context)
LoginPageOpen(s) == s.loginPage /\ s.loginCtx \in s.ctxOpen

\* checkScanStatus of the idle-timeout servers, up to its first await: the
\* cached branch and the branch without a login page return before
\* updateActivity()
SCI_Begin(s, i) ==
  IF s.isLoggedIn
    THEN Goto(ScanLogged(s, "success", TRUE, FALSE), i, "op_ok")
  ELSE IF ~LoginPageOpen(s)
    THEN Goto(ScanLogged(s, "waiting", FALSE, FALSE), i, "op_ok")
  ELSE Await([s EXCEPT !.idle = FALSE, !.refreshed = TRUE], i, "sci_load", s.context)

\* getQRCode of the drain-and-destroy server: const page = await
\* browserManager.context.newPage(), a TypeError when context is null
QR_NewPage(s, i) ==
  IF s.context = Null THEN Goto(s, i, "op_fail")
                      ELSE Await(s, i, "qr_page", s.context)

\* getQRCode: await browserManager.closeLoginPage()
QR_Begin(s, i) ==
  IF s.loginPage THEN Await(s, i, "qr_lp", s.context) ELSE QR_NewPage(s, i)

\* postWeibo of the drain-and-destroy server: if (!isLoggedIn) throw;
\* const page = await browserManager.context.newPage()
PW_Begin(s, i) ==
  IF ~s.isLoggedIn \/ s.context = Null
    THEN Goto(s, i, "op_fail")
    ELSE Await(s, i, "pw_page", s.context)

\* an attempt of postWeibo in the idle-timeout servers: if (!isLoggedIn)
\* throw, into the catch of the attempt; then a page is asked for
PWI_Attempt(s, i) ==
  IF ~s.isLoggedIn THEN Goto(s, i, "op_catch")
                   ELSE Call(s, i, "ii_entry", "np_ready")

\* task.operation() is invoked and runs up to its first await.  A plain
\* operation does not call the manager (every operation of the
\* drain-and-destroy server, checkScanStatus of the others) and is followed
\* by its outcome; a page operation first gets a page (await
\* browserManager.newPage(), or initBrowser() and context.newPage()); logout
\* first removes the session file (the logout of the drain-and-destroy server
\* does nothing else but set the belief, and is followed by its outcome);
\* checkLoginStatus is a page operation whose steps are followed one by one
OpBegin(s, i) ==
  LET k == s.kind[s.chains[i].task] IN
    CASE k = "page" -> Call(s, i, "ii_entry", "np_ready")
      [] k = "scan" /\ s.variant = "drain" -> SC_Begin(s, i)
      [] k = "scan" /\ s.variant # "drain" -> SCI_Begin(s, i)
      [] k = "qr" /\ s.variant # "drain" ->
           Call(s, i, "ii_entry", "np_ready")
      [] k = "qr" /\ s.variant = "drain" -> QR_Begin(s, i)
      [] k = "post" /\ s.variant = "drain" -> PW_Begin(s, i)
      [] k = "post" /\ s.variant # "drain" -> PWI_Attempt(s, i)
      [] k = "status" /\ s.variant = "drain" ->
           ST_Begin(StatusLogged(s, i, "begin", FALSE), i)
      [] k = "status" /\ s.variant # "drain" ->
           Call(StatusLogged(s, i, "begin", FALSE), i, "ii_entry", "np_ready")
      [] k = "logout" /\ s.variant # "drain" ->
           [s EXCEPT !.chains[i].pc = "lo_rm"]
      [] OTHER -> s

\* const task = this.queue.shift(); this.currentOperation = ...;
\* await task.operation(): chain i suspends until the operation settles
Dequeue(s, i) ==
  LET t == Shifted(s.queue) IN
    OpBegin([s EXCEPT !.queue = AfterShift(s.queue),
                      !.currentOperation = t,
                      !.dequeues[t] = @ + 1,
                      !.started = Append(@, t),
                      !.quiet = FALSE, !.refreshed = FALSE,
                      !.snap[t] = SnapNow(s),
                      !.chains[i].pc = "pq_op",
                      !.chains[i].task = t,
                      !.chains[i].n = 0,
                      !.cur = Null], i)

\* task.resolve(result) on success, task.reject(error) on failure
Settle(s, t, ok) ==
  [s EXCEPT !.outcome[t] = IF ok THEN "fulfilled" ELSE "rejected",
            !.settles[t] = @ + 1]

\* chain i leaves the iteration of its task (const task goes out of scope)
Done(s, i) == [s EXCEPT !.chains[i].task = Null]

\* this.queue.push(task)
Push(s) == [s EXCEPT !.nEnq = @ + 1, !.queue = Append(@, s.nEnq + 1)]

\* (a processQueue without the guard on its flag; C2 must tell them apart)
PQBusyNever(s) == FALSE

\* the guard at the top of processQueue
PQBusy(s) == s.processing

\* ---- drain-and-destroy processQueue, up to await browserManager.init()
D_ProcessQueue(s) ==
  IF PQBusy(s) \/ Len(s.queue) = 0
    THEN s
    ELSE Spawn([s EXCEPT !.processing = TRUE, !.batch = @ + 1],
               "init_entry", <<"pq_loop">>)

\* while (this.queue.length > 0) { shift; run }, else on to the outer finally
D_Loop(s, i) ==
  IF Len(s.queue) > 0 THEN Dequeue(s, i) ELSE Goto(s, i, "pq_finally")

\* the log of the per-task finally ("finally"): that a task settled
\* (ev = "settled") or that saveSessionNow() was called ("attempt"), with
\* the login belief at that moment
FinallyLogged(s, e) ==
  Logged(s, "finally", [ev |-> e, v |-> FALSE, timer |-> FALSE,
                        li |-> s.isLoggedIn, live |-> IsContextAlive(s)])

\* (a per-task finally that saves the session whatever the login belief;
\* C34 must tell them apart)
D_AfterOpSavesAlways(s, i, ok) ==
  LET s1 == FinallyLogged(Done(Settle(s, s.chains[i].task, ok), i),
                          "settled") IN
    Call(s1, i, "ss_entry", "pq_loop")

\* the operation has settled: resolve or reject, then the per-task finally
\* saves the session when the login belief is true
D_AfterOp(s, i, ok) ==
  LET s1 == FinallyLogged(Done(Settle(s, s.chains[i].task, ok), i),
                          "settled") IN
    IF s1.isLoggedIn THEN Call(s1, i, "ss_entry", "pq_loop")
                     ELSE Goto(s1, i, "pq_loop")

\* the outer catch: init() threw; the error is logged
D_Catch(s, i) ==
  Goto([s EXCEPT !.initFail = @ \cup (IF s.queue = <<>> THEN {} ELSE {Head(s.queue)})],
       i, "pq_finally")

\* (an outer finally that releases the flag and leaves currentOperation as
\* it was; C27 must tell them apart)
D_FinallyKeepsOperation(s, i) ==
  LET s1 == [s EXCEPT !.processing = FALSE] IN
    IF Len(s1.queue) = 0
      THEN [Goto(s1, i, "cleanup_entry") EXCEPT !.chains[i].arg = TRUE]
      ELSE Finish(s1, i)

\* the outer finally: release the flag, then destroy the browser if drained
D_Finally(s, i) ==
  LET s1 == [s EXCEPT !.currentOperation = Null, !.processing = FALSE] IN
    IF Len(s1.queue) = 0
      THEN [Goto(s1, i, "cleanup_entry") EXCEPT !.chains[i].arg = TRUE]
      ELSE Finish(s1, i)

\* ---- setImmediate-chained processQueue: one task per invocation
S_ProcessQueue(s) ==
  IF PQBusy(s) \/ Len(s.queue) = 0
    THEN s
    ELSE LET s1 == Spawn([s EXCEPT !.processing = TRUE, !.batch = @ + 1],
                         "pq_start", <<>>)
         IN Dequeue(s1, s1.cur)

\* if (this.queue.length > 0) setImmediate(() => this.processQueue())
S_Restart(s) ==
  IF Len(s.queue) > 0 THEN [s EXCEPT !.immediates = @ + 1] ELSE s

\* the operation has settled: resolve or reject, then the finally
S_AfterOp(s, i, ok) ==
  LET s1 == Settle(s, s.chains[i].task, ok)
      s2 == [s1 EXCEPT !.currentOperation = Null, !.processing = FALSE]
  IN Finish(S_Restart(s2), i)

\* ---- while-loop processQueue
W_ProcessQueue(s) ==
  IF PQBusy(s)
    THEN s
    ELSE Spawn([s EXCEPT !.processing = TRUE, !.batch = @ + 1], "pq_loop", <<>>)

\* while (this.queue.length > 0) { shift; run }, else the finally
W_Loop(s, i) ==
  IF Len(s.queue) > 0
    THEN Dequeue(s, i)
    ELSE Finish([s EXCEPT !.processing = FALSE], i)

\* (a loop without its inner catch: the rejection leaves the while loop
\* through the outer finally; C3 must tell them apart)
W_AfterOpUncaught(s, i, ok) ==
  LET s1 == [Done(Settle(s, s.chains[i].task, ok), i)
               EXCEPT !.currentOperation = Null] IN
    IF ok THEN Goto(s1, i, "pq_loop")
          ELSE Finish([s1 EXCEPT !.processing = FALSE], i)

\* the operation has settled: resolve or reject, then the inner finally
W_AfterOp(s, i, ok) ==
  Goto([Done(Settle(s, s.chains[i].task, ok), i)
          EXCEPT !.currentOperation = Null], i, "pq_loop")

\* (a loadSession() that hands over the stored session although reading it
\* failed; C24 must tell them apart)
Load_DataKeepsFile(file, ok) == file

\* what loadSession() / _safeLoadSession() returns: the stored session
\* (TRUE) when the file exists and was read, null (FALSE) when there is no
\* file or reading it threw
Load_Data(file, ok) == file /\ ok

\* loadSession() has settled, reading the file having failed or not
Load_Logged(s, ok) ==
  Logged(s, "load", [ev |-> IF ok THEN "load" ELSE "loadFailed",
                     v |-> Load_Data(s.sessionFile, ok), timer |-> FALSE,
                     li |-> s.isLoggedIn, live |-> IsContextAlive(s)])

\* browser.newContext(contextOptions) is called, with storageState (data) or
\* without
NewContext_Logged(s, data) ==
  Logged(s, "load", [ev |-> "newContext", v |-> data, timer |-> FALSE,
                     li |-> s.isLoggedIn, live |-> IsContextAlive(s)])

\* ------------------------------------- BrowserManager (drain-and-destroy)
\* this.isInitializing = true; this.browser = await chromium.launch(...)
StartCreation(s, i) ==
  Await([s EXCEPT !.isInitializing = TRUE, !.launchCalls = @ + 1],
        i, "init_launch", Null)

\* init(): both handles set -> return; a creation in flight -> poll every
\* 100 ms; else create
Init_Entry(s, i) ==
  IF s.browser # Null /\ s.context # Null
    THEN Return(s, i)
    ELSE IF s.isInitializing
      THEN Wait(s, i, "init_wait")
      ELSE StartCreation(s, i)

\* one round of the wait loop: if (this.browser) return; when the flag is
\* down the loop is left and the caller creates
Init_Polled(s, i) ==
  IF s.browser # Null
    THEN Return(s, i)
    ELSE IF s.isInitializing
      THEN Wait(s, i, "init_wait")
      ELSE StartCreation(s, i)

\* chromium.launch settled; on success createContext() starts with loadSession
Init_Launched(s, i, ok) ==
  IF ok
    THEN Await([s EXCEPT !.nBrowsers = @ + 1,
                         !.browser = s.nBrowsers + 1,
                         !.alive = @ \cup {s.nBrowsers + 1}],
               i, "cc_load", Null)
    ELSE CallArg([s EXCEPT !.faults = @ + 1], i, "cleanup_entry",
                 "init_rethrow", TRUE)

\* (a createContext() that leaves the belief alone; C31 must tell them apart)
Init_LoadedKeepsBelief(s, i, data) ==
  IF s.browser = Null
    THEN CallArg(s, i, "cleanup_entry", "init_rethrow", TRUE)
    ELSE Await(NewContext_Logged([s EXCEPT !.newCtxCalls = @ + 1], data),
               i, "cc_newctx", s.browser)

\* createContext(): loadSession returned data (the belief becomes true) or
\* null; this.browser.newContext(...) is a TypeError when browser is null
Init_Loaded(s, i, data) ==
  LET s1 == [s EXCEPT !.isLoggedIn = IF data THEN TRUE ELSE @] IN
    IF s1.browser = Null
      THEN CallArg(s1, i, "cleanup_entry", "init_rethrow", TRUE)
      ELSE Await(NewContext_Logged([s1 EXCEPT !.newCtxCalls = @ + 1], data),
                 i, "cc_newctx", s1.browser)

\* newContext fulfilled: this.context = ...; init() returns through its
\* finally
Init_ContextCreated(s, i) ==
  Return([s EXCEPT !.context = Len(s.ctxOwner) + 1,
                   !.ctxOwner = Append(@, s.chains[i].h),
                   !.ctxOpen = @ \cup {Len(s.ctxOwner) + 1},
                   !.isInitializing = FALSE], i)

\* newContext rejected: the catch of init() runs cleanup(true)
Init_ContextFailed(s, i) ==
  CallArg(s, i, "cleanup_entry", "init_rethrow", TRUE)

\* the catch of init() after its cleanup(true): throw e, through the finally
Init_Rethrow(s, i) == Throw([s EXCEPT !.isInitializing = FALSE], i)

\* cleanup(force), second half: if (this.browser) await this.browser.close()
Cleanup_Browser(s, i) ==
  IF s.browser # Null THEN Await(s, i, "cl_br", s.browser)
                      ELSE Return([s EXCEPT !.loginPage = FALSE], i)

\* cleanup(force): the parameter is not read; the context goes first
Cleanup_Entry(s, i) ==
  IF s.context # Null THEN Await(s, i, "cl_ctx", s.context)
                      ELSE Cleanup_Browser(s, i)

\* context.close() settled: this.context = null, whatever it holds by now
Cleanup_AfterCtx(s, i) ==
  Cleanup_Browser([s EXCEPT !.ctxOpen = @ \ {s.chains[i].h},
                            !.saved = @ \ {s.chains[i].h},
                            !.context = Null], i)

\* (a cleanup that closed the browser and kept the handle; C21 must tell
\* them apart)
Cleanup_AfterBrowserKeepsHandle(s, i) ==
  Return([s EXCEPT !.alive = @ \ {s.chains[i].h},
                   !.ctxOpen = {c \in @ : s.ctxOwner[c] # s.chains[i].h},
                   !.saved = {c \in @ : s.ctxOwner[c] # s.chains[i].h},
                   !.loginPage = FALSE], i)

\* browser.close() settled: this.browser = null, whatever it holds by now;
\* this.loginPage = null
Cleanup_AfterBrowser(s, i) ==
  Return([s EXCEPT !.alive = @ \ {s.chains[i].h},
                   !.ctxOpen = {c \in @ : s.ctxOwner[c] # s.chains[i].h},
                   !.saved = {c \in @ : s.ctxOwner[c] # s.chains[i].h},
                   !.browser = Null, !.loginPage = FALSE], i)

\* fs.writeJson(SESSION_FILE, sessionData) is called, by the auto-save timer
\* (t) or not
Save_Write(s, i, t, l) ==
  Await(Logged(s, "save", [ev |-> "write", v |-> FALSE, timer |-> t,
                   li |-> s.isLoggedIn, live |-> IsContextAlive(s)]),
        i, l, Null)

\* (a saveSessionNow() that returns true however it ended; C23 must tell them
\* apart)
Save_ReturnsTrue(s, i, v) ==
  Return(Logged(s, "save", [ev |-> "return", v |-> TRUE,
                    timer |-> (s.chains[i].stk = <<"timer_done">>),
                    li |-> s.isLoggedIn, live |-> IsContextAlive(s)]), i)

\* saveSessionNow() returns v: true after the write, false from its catch
\* and from its end
Save_Return(s, i, v) ==
  Return(Logged(s, "save", [ev |-> "return", v |-> v,
                    timer |-> (s.chains[i].stk = <<"timer_done">>),
                    li |-> s.isLoggedIn, live |-> IsContextAlive(s)]), i)

\* saveSessionNow(): only with a context on a connected browser
Save_Entry(s, i) ==
  LET s1 == FinallyLogged(s, "attempt") IN
    IF s1.context # Null /\ s1.browser # Null /\ s1.browser \in s1.alive
      THEN Await([s1 EXCEPT !.saved = @ \cup {s1.context}], i, "ss_state",
                 s1.context)
      ELSE Save_Return(s1, i, FALSE)

\* saveSessionNow() of the while-loop server: if (!this.isContextAlive())
\* return false; then context.storageState()
WS_Entry(s, i) ==
  IF IsContextAlive(s)
    THEN Await([s EXCEPT !.saved = @ \cup {s.context}], i, "ws_state",
               s.context)
    ELSE Save_Return(s, i, FALSE)

\* the callback of the auto-save timer has ended
T_Done(s, i) == Finish(s, i)

\* process.exit(0)
GS_Exit(s, i) == [s EXCEPT !.exited = TRUE, !.cur = Null]

\* ---------------------------------------- BrowserManager.init (idle-timeout)
\* the finally of init() on a throw
II_Fail(s, i) == Throw([s EXCEPT !.isInitializing = FALSE], i)

\* startCleanupTimer(): if (this.cleanupInterval) return;
\* this.cleanupInterval = setInterval(...)
StartCleanupTimer(s) ==
  IF s.cleanupInterval THEN s
  ELSE [s EXCEPT !.cleanupInterval = TRUE, !.timers.cleanup = @ + 1]

\* startAutoSaveTimer() / startAutoSave(): if (this.autoSaveInterval) return;
\* this.autoSaveInterval = setInterval(...)
StartAutoSaveTimer(s) ==
  IF s.autoSaveInterval THEN s
  ELSE [s EXCEPT !.autoSaveInterval = TRUE, !.timers.autoSave = @ + 1]

\* updateActivity(); startCleanupTimer(); startAutoSaveTimer(); return
\* { browser, context } through the finally
II_Ready(s, i) ==
  Return([StartAutoSaveTimer(StartCleanupTimer(s))
            EXCEPT !.idle = FALSE, !.refreshed = TRUE,
                   !.isInitializing = FALSE], i)

\* if (!this.context) { await this._safeLoadSession(); ... }
II_EnsureContext(s, i) ==
  IF s.context = Null THEN Await(s, i, "ii_load", Null) ELSE II_Ready(s, i)

\* a context left on a disconnected browser is closed first
II_CheckContext(s, i) ==
  IF s.context # Null /\ s.browser \notin s.alive
    THEN Await(s, i, "ii_ctxclose", s.context)
    ELSE II_EnsureContext(s, i)

\* this.isInitializing = true; if (!this.browser) launch
II_Create(s, i) ==
  LET s1 == [s EXCEPT !.isInitializing = TRUE] IN
    IF s1.browser = Null
      THEN Await([s1 EXCEPT !.launchCalls = @ + 1], i, "ii_launch", Null)
      ELSE II_CheckContext(s1, i)

\* init(): a creation in flight -> poll every 100 ms; both handles set ->
\* return them; else create
II_Entry(s, i) ==
  IF s.isInitializing
    THEN Wait(s, i, "ii_wait")
    ELSE IF s.browser # Null /\ s.context # Null
      THEN Return([s EXCEPT !.idle = FALSE, !.refreshed = TRUE], i)
      ELSE II_Create(s, i)

\* one round of the wait loop; once the flag is down return
\* { browser: this.browser, context: this.context }
II_Polled(s, i) ==
  IF s.isInitializing THEN Wait(s, i, "ii_wait") ELSE Return(s, i)

\* chromium.launch settled
II_Launched(s, i, ok) ==
  IF ok
    THEN II_CheckContext([s EXCEPT !.nBrowsers = @ + 1,
                                   !.browser = s.nBrowsers + 1,
                                   !.alive = @ \cup {s.nBrowsers + 1}], i)
    ELSE II_Fail([s EXCEPT !.faults = @ + 1], i)

\* _safeLoadSession returned; this.browser.newContext(...) is called
II_Loaded(s, i, data) ==
  IF s.browser = Null
    THEN II_Fail(s, i)
    ELSE Await(NewContext_Logged([s EXCEPT !.newCtxCalls = @ + 1], data),
               i, "ii_newctx", s.browser)

\* newContext fulfilled: this.context = ...
II_ContextCreated(s, i) ==
  II_Ready([s EXCEPT !.context = Len(s.ctxOwner) + 1,
                     !.ctxOwner = Append(@, s.chains[i].h),
                     !.ctxOpen = @ \cup {Len(s.ctxOwner) + 1}], i)

\* the stale context is closed: this.context = null
II_AfterCtxClose(s, i) ==
  II_EnsureContext([s EXCEPT !.ctxOpen = @ \ {s.chains[i].h},
                             !.context = Null], i)

\* ------------------------------- BrowserManager.cleanup (idle-timeout)
\* cleanupContext(), second half: if (this.context) await this.context.close()
CX_Context(s, i) ==
  IF s.context # Null
    THEN Await(s, i, "cx_ctx", s.context)
    ELSE Return(s, i)

\* cleanupContext(): the while-loop revision closes an open login page first
CX_Entry(s, i) ==
  IF s.variant = "while" /\ s.loginPage
    THEN Await(s, i, "cx_lp", s.context)
    ELSE CX_Context(s, i)

\* loginPage.close() settled: this.loginPage = null
CX_AfterLoginPage(s, i) == CX_Context([s EXCEPT !.loginPage = FALSE], i)

\* (a cleanupContext() that dropped the browser too; C14 must tell them
\* apart)
CX_AfterCtxDropsBrowser(s, i) ==
  Return([s EXCEPT !.ctxOpen = @ \ {s.chains[i].h},
                   !.saved = @ \ {s.chains[i].h},
                   !.evicted = IF s.chains[i].stk = <<>>
                                 THEN @ \cup {s.chains[i].h} ELSE @,
                   !.context = Null, !.browser = Null], i)

\* context.close() settled: this.context = null, whatever it holds by now;
\* a chain with no caller is the callback of the idle sweep
CX_AfterCtx(s, i) ==
  Return([s EXCEPT !.ctxOpen = @ \ {s.chains[i].h},
                   !.saved = @ \ {s.chains[i].h},
                   !.evicted = IF s.chains[i].stk = <<>>
                                 THEN @ \cup {s.chains[i].h} ELSE @,
                   !.context = Null], i)

\* if (this.cleanupInterval) { clearInterval(...); this.cleanupInterval =
\* null }, and the same for this.autoSaveInterval
ClearTimers(s) ==
  [s EXCEPT !.cleanupInterval = FALSE, !.autoSaveInterval = FALSE,
            !.timers = [cleanup |-> IF s.cleanupInterval
                                      THEN @.cleanup - 1 ELSE @.cleanup,
                        autoSave |-> IF s.autoSaveInterval
                                       THEN @.autoSave - 1 ELSE @.autoSave]]

\* cleanup(closeBrowser): both timers are cleared, then cleanupContext()
IC_Entry(s, i) == Call(ClearTimers(s), i, "cx_entry", "ic_after")

\* cleanup() returns to its caller
IC_Return(s, i) ==
  Return([s EXCEPT !.dangling = @ \/ s.cleanupInterval
                                \/ s.autoSaveInterval], i)

\* if (closeBrowser && this.browser) await this.browser.close()
IC_After(s, i) ==
  IF s.chains[i].arg /\ s.browser # Null
    THEN Await(s, i, "ic_br", s.browser)
    ELSE IC_Return(s, i)

\* browser.close() settled: this.browser = null
IC_AfterBrowser(s, i) ==
  IC_Return([s EXCEPT !.alive = @ \ {s.chains[i].h},
                   !.ctxOpen = {c \in @ : s.ctxOwner[c] # s.chains[i].h},
                   !.saved = {c \in @ : s.ctxOwner[c] # s.chains[i].h},
                   !.browser = Null], i)

\* the callback of the cleanup timer: a sweep that finds more than ten
\* minutes since the last one (while-loop revision) only notes the time;
\* otherwise an idle context is closed unless a task is being processed
Sweep_Run(s) ==
  IF s.variant = "while" /\ s.resumed
    THEN [s EXCEPT !.resumed = FALSE]
    ELSE IF s.idle /\ s.context # Null /\ ~s.processing
      THEN Spawn(s, "cx_entry", <<>>)
      ELSE s

\* ------------------------------------ gracefulShutdown (idle-timeout)
\* (a wait loop that tested requestQueue.processing alone; C18 must tell
\* them apart)
GS_LoopUnbounded(s, i) ==
  IF s.processing
    THEN [s EXCEPT !.chains[i].pc = "gs_poll", !.cur = Null]
    ELSE CallArg(s, i, "ic_entry", "gs_exit", TRUE)

\* while (requestQueue.processing && Date.now() - startTime < maxWait) await
\* a timer; n counts the timer periods gone by, maxWait is MaxPolls of them;
\* then await browserManager.cleanup(true) and process.exit(0)
GS_Loop(s, i) ==
  IF s.processing /\ s.chains[i].n < MaxPolls
    THEN [s EXCEPT !.chains[i].pc = "gs_poll", !.chains[i].n = @ + 1,
                   !.cur = Null]
    ELSE CallArg(s, i, "ic_entry", "gs_exit", TRUE)

\* ------------------------------------ operations of the idle-timeout servers
\* the operation of chain i has settled: the catch or the finally of
\* processQueue goes on
I_AfterOp(s, i, ok) ==
  LET s1 == [s EXCEPT !.chains[i].h = Null, !.chains[i].n = 0] IN
    IF s.variant = "chained" THEN S_AfterOp(s1, i, ok)
                             ELSE W_AfterOp(s1, i, ok)

\* getQRCode of the idle-timeout servers: this.context.newPage() for the
\* login page, a TypeError when context is null by now
QRI_NewPage(s, i) ==
  IF s.context = Null THEN Goto(s, i, "qri_catch")
                      ELSE Await(s, i, "qri_page", s.context)

\* getQRCode: updateActivity(); an open login page is closed first
QRI_CloseOld(s, i) ==
  LET s1 == [s EXCEPT !.idle = FALSE, !.refreshed = TRUE] IN
    IF LoginPageOpen(s1) THEN Await(s1, i, "qri_lp", s1.context)
                         ELSE QRI_NewPage(s1, i)

\* the catch of an attempt of getQRCode: wait and try again, or after
\* maxRetries attempts throw lastError (the login page stays as it is)
QRI_Catch(s, i) ==
  IF s.chains[i].n < MaxRetries - 1
    THEN [s EXCEPT !.chains[i].pc = "op_retry", !.chains[i].n = @ + 1,
                   !.chains[i].h = Null, !.cur = Null]
    ELSE I_AfterOp(s, i, FALSE)

\* init() returned: if (!this.context) throw; updateActivity();
\* await this.context.newPage()
NP_Ready(s, i) ==
  IF s.kind[s.chains[i].task] = "qr" /\ s.variant = "chained"
    THEN QRI_CloseOld(s, i)
  ELSE IF s.context = Null
    THEN Goto(s, i, "op_catch")
    ELSE Await([s EXCEPT !.idle = FALSE, !.refreshed = TRUE], i, "np_page", s.context)

\* context.newPage() fulfilled: the operation works on its page
NP_Page(s, i) ==
  IF s.kind[s.chains[i].task] = "qr"
    THEN QRI_CloseOld(PageOpened(s, i), i)
    ELSE [PageOpened(s, i)
            EXCEPT !.chains[i].pc =
                     CASE s.kind[s.chains[i].task] = "status" -> "st_nav"
                       [] s.kind[s.chains[i].task] = "post" -> "pwi_fill"
                       [] OTHER -> "pq_op",
                   !.cur = Null]

\* postWeibo, after an attempt that failed: the next attempt, or after
\* maxRetries attempts throw lastError
PWI_Next(s, i) ==
  IF s.chains[i].n < MaxRetries - 1
    THEN PWI_Attempt([s EXCEPT !.chains[i].n = @ + 1,
                               !.chains[i].h = Null], i)
    ELSE I_AfterOp(s, i, FALSE)

\* the catch of an attempt of postWeibo; page: the attempt had got its page.
\* Earlier idle-timeout server: the catch waits 3 s unless this was the last
\* attempt, then the finally closes the page.  While-loop server: the catch
\* closes the page, then waits 2.5 s unless this was the last attempt
PWI_Catch(s, i, page) ==
  IF s.variant = "chained"
    THEN IF s.chains[i].n < MaxRetries - 1
           THEN [s EXCEPT !.chains[i].pc = IF page THEN "pwi_wait_p"
                                                   ELSE "pwi_wait",
                          !.cur = Null]
           ELSE IF page THEN Await(s, i, "pwi_close", s.chains[i].h)
                        ELSE PWI_Next(s, i)
    ELSE IF page THEN Await(s, i, "pwi_close", s.chains[i].h)
         ELSE IF s.chains[i].n < MaxRetries - 1
           THEN [s EXCEPT !.chains[i].pc = "pwi_wait", !.cur = Null]
           ELSE PWI_Next(s, i)

\* page.close() of a failed attempt settled
PWI_Closed(s, i) ==
  LET s1 == PageClosed(s, i) IN
    IF s.variant = "while" /\ s.chains[i].n < MaxRetries - 1
      THEN [s1 EXCEPT !.chains[i].pc = "pwi_wait", !.cur = Null]
      ELSE PWI_Next(s1, i)

\* the editor is filled and the send button found: Promise.all of
\* page.waitForResponse and the click
PWI_Click(s, i) ==
  [s EXCEPT !.clicks[s.chains[i].task] = @ + 1,
            !.chains[i].pc = "pwi_resp", !.cur = Null]

\* the response says ok: await browserManager.saveSessionNow()
PWI_Sent(s, i) ==
  Call(s, i, IF s.variant = "chained" THEN "cs_entry" ELSE "ws_entry",
       "pwi_saved")

\* saveSessionNow() returned: return { success: true }.  Earlier
\* idle-timeout server: through the finally, which closes the page.
\* While-loop server: at once, the page is left open
PWI_Saved(s, i) ==
  IF s.variant = "chained"
    THEN Await(s, i, "pwi_close_ok", Null)
    ELSE I_AfterOp(s, i, TRUE)

\* the catch of an attempt: wait and try again, or after maxRetries attempts
\* isLoggedIn = false; throw lastError (checkLoginStatus); the catch of
\* getQRCode and of postWeibo when the attempt has no page yet
Op_Catch(s, i) ==
  CASE s.kind[s.chains[i].task] = "post" -> PWI_Catch(s, i, FALSE)
    [] s.kind[s.chains[i].task] = "qr" -> QRI_Catch(s, i)
    [] OTHER ->
         IF s.chains[i].n < MaxRetries - 1
           THEN [s EXCEPT !.chains[i].pc = "op_retry", !.chains[i].n = @ + 1,
                          !.chains[i].h = Null, !.cur = Null]
           ELSE I_AfterOp(StatusLogged([s EXCEPT !.isLoggedIn = FALSE], i,
                                       "reject", FALSE), i, FALSE)

\* logout: the session file is removed (or removing it failed and was
\* logged); isLoggedIn = false; an open login page is closed; then
\* cleanup(false)
LO_Removed(s, i, removed) ==
  LET s1 == [s EXCEPT !.sessionFile = IF removed THEN FALSE ELSE @,
                      !.isLoggedIn = FALSE] IN
    IF s1.loginPage THEN Await(s1, i, "lo_lp", s1.context)
                    ELSE CallArg(s1, i, "ic_entry", "lo_done", FALSE)

\* loginPage.close() settled: loginPage = null; await cleanup(false)
LO_PageClosed(s, i) ==
  CallArg([s EXCEPT !.loginPage = FALSE], i, "ic_entry", "lo_done", FALSE)

\* ------------------------------------------------- callers of init() alone
\* the call returned (in the idle-timeout init with { browser, context });
\* w: it had found a creation in flight
H_Done(s, i) ==
  Finish([s EXCEPT !.hres = Append(@, [ok |-> TRUE, b |-> s.browser,
                                        c |-> s.context,
                                        w |-> s.chains[i].w])], i)
\* the call threw
H_Failed(s, i) ==
  Finish([s EXCEPT !.hres = Append(@, [ok |-> FALSE, b |-> s.browser,
                                        c |-> s.context,
                                        w |-> s.chains[i].w])], i)

\* --------------------------------------------------- checkLoginStatus
\* saveSessionNow() of the earlier idle-timeout server:
\* if (this.context && isLoggedIn) await this.context.storageState()
CS_Entry(s, i) ==
  IF s.context # Null /\ s.isLoggedIn
    THEN Await([s EXCEPT !.saved = @ \cup {s.context}], i, "cs_state",
               s.context)
    ELSE Save_Return(s, i, FALSE)

\* checkLoginStatus returns val: the task is resolved with it
ST_Fulfil(s, i, val) ==
  LET s1 == StatusLogged(s, i, "fulfil", val) IN
    IF s.variant = "drain" THEN D_AfterOp(s1, i, TRUE)
                           ELSE I_AfterOp(s1, i, TRUE)

\* checkLoginStatus throws: out of the try of the drain-and-destroy server
\* after its finally, or after the loop of the others (isLoggedIn = false;
\* throw lastError)
ST_Reject(s, i) ==
  IF s.variant = "drain"
    THEN D_AfterOp(StatusLogged(s, i, "reject", FALSE), i, FALSE)
    ELSE I_AfterOp(StatusLogged([s EXCEPT !.isLoggedIn = FALSE], i,
                                "reject", FALSE), i, FALSE)

\* the page shows the editor (waitForSelector fulfilled, found): the belief
\* is set, then the page is closed (drain-and-destroy: finally) or the
\* session saved first (await browserManager.saveSessionNow())
\* (a check that returns true without setting the belief; C30 must tell them
\* apart)
ST_FoundKeepsBelief(s, i) == Await(s, i, "st_close_t", s.chains[i].h)
ST_Found(s, i) ==
  LET s1 == [s EXCEPT !.isLoggedIn = TRUE] IN
    CASE s.variant = "drain" -> Await(s1, i, "st_close_t", s.chains[i].h)
      [] s.variant = "chained" -> Call(s1, i, "cs_entry", "st_saved")
      [] OTHER -> Call(s1, i, "ws_entry", "st_saved")

\* saveSessionNow() returned, whatever it returned: page.close(), return true
ST_Saved(s, i) == Await(s, i, "st_close_t", Null)

\* the page does not show it: the belief is set false, the page closed
ST_NotFound(s, i) ==
  Await([s EXCEPT !.isLoggedIn = FALSE], i, "st_close_f", s.chains[i].h)

\* page.goto threw.  drain-and-destroy: finally page.close(), the error
\* leaves checkLoginStatus.  Later idle-timeout: the catch closes the page,
\* then waits for the next attempt.  Earlier idle-timeout: the catch waits,
\* the finally closes the page
ST_NavThrew(s, i) ==
  CASE s.variant = "drain" -> Await(s, i, "st_close_x", s.chains[i].h)
    [] s.variant = "while" -> Await(s, i, "st_close_c", s.chains[i].h)
    [] OTHER -> IF s.chains[i].n < MaxRetries - 1
                  THEN [s EXCEPT !.chains[i].pc = "st_wait", !.cur = Null]
                  ELSE Await(s, i, "st_close_x", s.chains[i].h)

\* a page.close() of checkLoginStatus settled (its failure is swallowed)
ST_Closed(s, i) ==
  LET l == s.chains[i].pc
      s1 == PageClosed(s, i) IN
    CASE l = "st_close_t" -> ST_Fulfil(s1, i, TRUE)
      [] l = "st_close_f" -> ST_Fulfil(s1, i, FALSE)
      [] l = "st_close_x" -> ST_Reject(s1, i)
      [] l = "st_close_c" -> Goto(s1, i, "op_catch")
      [] OTHER -> Call([s1 EXCEPT !.chains[i].n = @ + 1, !.chains[i].h = Null],
                       i, "ii_entry", "np_ready")

\* ------------------------------------------------- the page operations
\* the operation returns, or throws: the task is resolved or rejected
Op_Settle(s, i, ok) ==
  IF s.variant = "drain" THEN D_AfterOp(s, i, ok) ELSE I_AfterOp(s, i, ok)

\* checkScanStatus, drain-and-destroy: the login page is closed
\* (closeLoginPage: loginPage = null) and the poll returns
SC_LoginPageClosed(s, i, r) ==
  Op_Settle(ScanLogged([s EXCEPT !.loginPage = FALSE, !.scanned = FALSE],
                       r, FALSE, TRUE), i, TRUE)

\* page.evaluate(() => document.body.innerText) settled: r is what the page
\* said, or that the call threw (the error leaves checkScanStatus)
SC_Evaluated(s, i, r) ==
  CASE r = "waiting" ->
         Op_Settle(ScanLogged(s, "waiting", FALSE, TRUE), i, TRUE)
    [] r = "expired" -> Await(s, i, "sc_lp_err", s.chains[i].h)
    [] OTHER -> Op_Settle(s, i, FALSE)

\* getQRCode: the new page is the login page; await page.goto(passport...)
QR_Page(s, i) ==
  [s EXCEPT !.loginPage = TRUE, !.scanned = FALSE,
            !.loginCtx = s.chains[i].h,
            !.chains[i].pc = "qr_goto", !.cur = Null]

\* page.goto and the search for the QR image settled: found, the URL is
\* returned; not found, await page.close(); goto threw, the error leaves
\* getQRCode with the page still the login page
QR_Loaded(s, i, r) ==
  CASE r = "qr" -> Op_Settle(s, i, TRUE)
    [] r = "noqr" -> Await(s, i, "qr_close", s.chains[i].h)
    [] OTHER -> Op_Settle(s, i, FALSE)

\* that page.close() settled: loginPage = null; throw; a rejected close()
\* is thrown from the catch before the assignment
QR_Closed(s, i, ok) ==
  Op_Settle(IF ok THEN [s EXCEPT !.loginPage = FALSE] ELSE s, i, FALSE)

\* checkScanStatus, idle-timeout: waitForLoadState settled and the URL is
\* read: the scan is confirmed (isLoggedIn = true; await saveSessionNow())
\* or the page is searched for its status
SCI_Loaded(s, i) ==
  IF s.scanned
    THEN Call([s EXCEPT !.isLoggedIn = TRUE], i,
              IF s.variant = "chained" THEN "cs_entry" ELSE "ws_entry",
              "sci_saved")
    ELSE [s EXCEPT !.chains[i].pc = "sci_eval", !.cur = Null]

\* the search settled: r is what the page said; when it threw, the later
\* server answers 'waiting' and the earlier one closes the login page in
\* its catch
SCI_Evaluated(s, i, r) ==
  CASE r = "waiting" ->
         Op_Settle(ScanLogged(s, "waiting", FALSE, TRUE), i, TRUE)
    [] r = "expired" -> Await(s, i, "sci_lp_err", s.context)
    [] OTHER ->
         IF s.variant = "chained" /\ LoginPageOpen(s)
           THEN Await(s, i, "sci_lp_err", s.context)
           ELSE Op_Settle(ScanLogged(s, IF s.variant = "chained"
                                          THEN "error" ELSE "waiting",
                                     FALSE, TRUE), i, TRUE)

\* getQRCode, idle-timeout: the new page is the login page; goto(passport)
QRI_Page(s, i) ==
  [s EXCEPT !.loginPage = TRUE, !.scanned = FALSE,
            !.loginCtx = s.chains[i].h,
            !.chains[i].pc = "qri_goto", !.cur = Null]

\* postWeibo: the editor is filled and the send button enabled:
\* Promise.all([page.waitForResponse(...), page.click(btnSelector)])
PW_Click(s, i) ==
  [s EXCEPT !.clicks[s.chains[i].task] = @ + 1,
            !.chains[i].pc = "pw_resp", !.cur = Null]

\* postWeibo: the finally closes the page, then the result is returned or
\* the error thrown
PW_Finally(s, i, ok) ==
  Await(s, i, IF ok THEN "pw_close_ok" ELSE "pw_close_x", s.chains[i].h)

\* ------------------------------------------------ the queue-less server
\* the catch of initBrowser, end: context = null; browser = null;
\* loginPage = null; throw error
IB_CatchEnd(s, i) ==
  Throw([s EXCEPT !.context = Null, !.browser = Null, !.loginPage = FALSE], i)

\* the catch: if (browser) await browser.close().catch(() => {})
IB_CatchBrowser(s, i) ==
  IF s.browser # Null THEN Await(s, i, "ib_cbr", s.browser)
                      ELSE IB_CatchEnd(s, i)

\* the catch: if (context) await context.close().catch(() => {})
IB_Catch(s, i) ==
  IF s.context # Null THEN Await(s, i, "ib_cctx", s.context)
                      ELSE IB_CatchBrowser(s, i)

\* that context.close() settled
IB_CatchAfterCtx(s, i) ==
  IB_CatchBrowser([s EXCEPT !.ctxOpen = @ \ {s.chains[i].h}], i)

\* that browser.close() settled
IB_CatchAfterBrowser(s, i) ==
  IB_CatchEnd([s EXCEPT !.alive = @ \ {s.chains[i].h},
                        !.ctxOpen = {c \in @ : s.ctxOwner[c] # s.chains[i].h}],
              i)

\* if (!context) { const sessionData = await loadSession(); ... }
IB_EnsureContext(s, i) ==
  IF s.context = Null THEN Await(s, i, "ib_load", Null) ELSE Return(s, i)

\* if (context && !browser.isConnected()) await context.close()
IB_CheckContext(s, i) ==
  IF s.context # Null /\ s.browser \notin s.alive
    THEN Await(s, i, "ib_stale", s.context)
    ELSE IB_EnsureContext(s, i)

\* the stale context is closed: context = null
IB_AfterStale(s, i) ==
  IB_EnsureContext([s EXCEPT !.ctxOpen = @ \ {s.chains[i].h},
                             !.context = Null], i)

\* initBrowser(): if (!browser) browser = await chromium.launch(...)
IB_Entry(s, i) ==
  IF s.browser = Null
    THEN Await([s EXCEPT !.launchCalls = @ + 1], i, "ib_launch", Null)
    ELSE IB_CheckContext(s, i)

\* chromium.launch settled: browser = ..., whatever it holds by now
IB_Launched(s, i, ok) ==
  IF ok
    THEN IB_CheckContext([s EXCEPT !.nBrowsers = @ + 1,
                                   !.browser = s.nBrowsers + 1,
                                   !.alive = @ \cup {s.nBrowsers + 1}], i)
    ELSE IB_Catch([s EXCEPT !.faults = @ + 1], i)

\* loadSession returned; browser.newContext(...) is a TypeError when browser
\* is null by now
IB_Loaded(s, i) ==
  IF s.browser = Null
    THEN IB_Catch(s, i)
    ELSE Await([s EXCEPT !.newCtxCalls = @ + 1], i, "ib_newctx", s.browser)

\* newContext fulfilled: context = ..., whatever it holds by now
IB_ContextCreated(s, i) ==
  Return([s EXCEPT !.context = Len(s.ctxOwner) + 1,
                   !.ctxOwner = Append(@, s.chains[i].h),
                   !.ctxOpen = @ \cup {Len(s.ctxOwner) + 1}], i)

\* one attempt of checkLoginStatus: await initBrowser()
Q_Attempt(s, i) == Call(s, i, "ib_entry", "q_ready")

\* the catch of an attempt: wait 2 s and try again, or after maxRetries
\* attempts isLoggedIn = false, throw: the route answers 500
Q_Catch(s, i) ==
  IF s.chains[i].n < MaxRetries - 1
    THEN [s EXCEPT !.chains[i].pc = "q_retry", !.chains[i].n = @ + 1,
                   !.chains[i].h = Null, !.cur = Null]
    ELSE Finish(Settle([s EXCEPT !.isLoggedIn = FALSE],
                       s.chains[i].task, FALSE), i)

\* page = await context.newPage(): a TypeError when context is null
Q_Ready(s, i) ==
  IF s.context = Null THEN Q_Catch(s, i)
                      ELSE Await(s, i, "q_page", s.context)

\* ---------------------------------------------------- run to suspension
\* the code chain s.cur executes from where it stands
Step(s) ==
  LET i == s.cur
      l == s.chains[i].pc
  IN CASE l = "pq_loop" -> (IF s.variant = "drain" THEN D_Loop(s, i)
                                                   ELSE W_Loop(s, i))
       [] l = "pq_catch" -> D_Catch(s, i)
       [] l = "pq_finally" -> D_Finally(s, i)
       [] l = "init_entry" -> Init_Entry(s, i)
       [] l = "init_rethrow" -> Init_Rethrow(s, i)
       [] l = "cleanup_entry" -> Cleanup_Entry(s, i)
       [] l = "ss_entry" -> Save_Entry(s, i)
       [] l = "ws_entry" -> WS_Entry(s, i)
       [] l = "timer_done" -> T_Done(s, i)
       [] l = "gs_exit" -> GS_Exit(s, i)
       [] l = "gs_loop" -> GS_Loop(s, i)
       [] l = "ii_entry" -> II_Entry(s, i)
       [] l = "cx_entry" -> CX_Entry(s, i)
       [] l = "ic_entry" -> IC_Entry(s, i)
       [] l = "ic_after" -> IC_After(s, i)
       [] l = "np_ready" -> NP_Ready(s, i)
       [] l = "op_catch" -> Op_Catch(s, i)
       [] l = "lo_done" -> I_AfterOp(s, i, TRUE)
       [] l = "caller_done" -> H_Done(s, i)
       [] l = "caller_failed" -> H_Failed(s, i)
       [] l = "st_throw" -> ST_Reject(s, i)
       [] l = "op_ok" -> Op_Settle(s, i, TRUE)
       [] l = "qri_catch" -> QRI_Catch(s, i)
       [] l = "pwi_saved" -> PWI_Saved(s, i)
       [] l = "sci_saved" -> Await(s, i, "sci_lp_ok", s.context)
       [] l = "op_fail" -> Op_Settle(s, i, FALSE)
       [] l = "st_saved" -> ST_Saved(s, i)
       [] l = "cs_entry" -> CS_Entry(s, i)
       [] l = "ib_entry" -> IB_Entry(s, i)
       [] l = "q_ready" -> Q_Ready(s, i)
       [] l = "q_catch" -> Q_Catch(s, i)

RECURSIVE Run(_)
Run(s) ==
  IF s.cur = Null THEN s
  ELSE CHOOSE r \in {Run(t) : t \in {Step(s)}} : TRUE

\* the event runs the code that takes St to s, then whatever follows, until
\* every chain is suspended
Does(s) == \E s0 \in {s} : \E t \in {Run(s0)} : Commit(t)

\* ------------------------------------------------------------- the events
\* a failure the environment may still inject (at most MaxFaults of them)
MayFail == faults < MaxFaults

\* an HTTP route handler calls requestQueue.enqueue: push, then processQueue()
D_Enqueue ==
  /\ variant = "drain" /\ ~exited /\ nEnq < MaxTasks
  /\ Does(D_ProcessQueue(Push(St)))

S_Enqueue ==
  /\ variant = "chained" /\ ~exited /\ nEnq < MaxTasks
  /\ Does(S_ProcessQueue(Push(St)))

W_Enqueue ==
  /\ variant = "while" /\ ~exited /\ nEnq < MaxTasks
  /\ Does(W_ProcessQueue(Push(St)))

\* the operation of the running task settles; it left the login belief li
\* and, if rm, removed the session file (logout)
D_OpDone(i, ok, li, rm) ==
  /\ variant = "drain" /\ Resumes(i, "pq_op")
  /\ rm => sessionFile /\ ~li
  /\ Does(D_AfterOp([St EXCEPT !.isLoggedIn = li,
                                !.sessionFile = IF rm THEN FALSE ELSE @],
                    i, ok))

\* this.queue.push(task) of a task whose operation is of kind k
PushKind(s, k) == [Push(s) EXCEPT !.kind[s.nEnq + 1] = k]

\* POST /api/logout and the other routes of the drain-and-destroy server
D_EnqueueKind(k) ==
  /\ variant = "drain" /\ ~exited /\ nEnq < MaxTasks
  /\ Does(D_ProcessQueue(PushKind(St, k)))

\* an operation other than logout settles
D_PlainDone(i, ok, li) ==
  /\ Resumes(i, "pq_op") /\ kind[chains[i].task] = "plain"
  /\ D_OpDone(i, ok, li, FALSE)

\* the logout operation fulfils: it removed the session file if there was
\* one, then setLoggedIn(false)
D_LogoutDone(i) ==
  /\ Resumes(i, "pq_op") /\ kind[chains[i].task] = "logout"
  /\ D_OpDone(i, TRUE, FALSE, sessionFile)

\* the logout operation rejects: fs.pathExists or fs.remove threw, the file
\* and the login belief are as they were
D_LogoutFailed(i) ==
  /\ Resumes(i, "pq_op") /\ kind[chains[i].task] = "logout" /\ MayFail
  /\ variant = "drain"
  /\ Does(D_AfterOp([St EXCEPT !.faults = @ + 1], i, FALSE))

S_OpDone(i, ok) ==
  /\ variant = "chained" /\ Resumes(i, "pq_op")
  /\ Does(S_AfterOp(St, i, ok))

W_OpDone(i, ok) ==
  /\ variant = "while" /\ Resumes(i, "pq_op")
  /\ Does(W_AfterOp(St, i, ok))

\* the callback registered by setImmediate(() => this.processQueue())
S_Immediate ==
  /\ variant = "chained" /\ ~exited /\ immediates > 0
  /\ Does(S_ProcessQueue([St EXCEPT !.immediates = @ - 1]))

\* the 100 ms timer of a waiting init() fires (rounds that find the flag
\* still up and no browser change nothing)
Init_Wait(i) ==
  /\ variant = "drain" /\ Resumes(i, "init_wait")
  /\ browser # Null \/ ~isInitializing
  /\ Does(Init_Polled(St, i))

Init_LaunchDone(i, ok) ==
  /\ variant = "drain" /\ Resumes(i, "init_launch")
  /\ ok \/ MayFail
  /\ Does(Init_Launched(St, i, ok))

\* loadSession settles: the stored session, or null when there is none or
\* reading it failed
Init_LoadDone(i, ok) ==
  /\ variant = "drain" /\ Resumes(i, "cc_load")
  /\ ok \/ (MayFail /\ sessionFile)
  /\ Does(Init_Loaded(Load_Logged([St EXCEPT !.faults = IF ok THEN @
                                                                ELSE @ + 1],
                                  ok),
                      i, Load_Data(sessionFile, ok)))

\* newContext settles; it cannot be fulfilled on a closed browser
Init_NewCtxDone(i, ok) ==
  /\ variant = "drain" /\ Resumes(i, "cc_newctx")
  /\ IF ok
       THEN /\ chains[i].h \in alive
            /\ Does(Init_ContextCreated(St, i))
       ELSE \/ /\ chains[i].h \notin alive
               /\ Does(Init_ContextFailed(St, i))
            \/ /\ chains[i].h \in alive /\ MayFail
               /\ Does(Init_ContextFailed([St EXCEPT !.faults = @ + 1], i))

Cleanup_CtxClosed(i) ==
  /\ variant = "drain" /\ Resumes(i, "cl_ctx")
  /\ Does(Cleanup_AfterCtx(St, i))

Cleanup_BrowserClosed(i) ==
  /\ variant = "drain" /\ Resumes(i, "cl_br")
  /\ Does(Cleanup_AfterBrowser(St, i))

\* context.storageState() settles (rejected on a closed context); a failure
\* is swallowed and saveSessionNow returns false
Save_StateDone(i, ok) ==
  /\ variant = "drain" /\ Resumes(i, "ss_state")
  /\ IF ok
       THEN /\ chains[i].h \in ctxOpen
            /\ Does(Save_Write(St, i, FALSE, "ss_write"))
       ELSE \/ /\ chains[i].h \notin ctxOpen
               /\ Does(Save_Return(St, i, FALSE))
            \/ /\ chains[i].h \in ctxOpen /\ MayFail
               /\ Does(Save_Return([St EXCEPT !.faults = @ + 1], i, FALSE))

\* fs.writeJson(SESSION_FILE) settles
Save_WriteDone(i, ok) ==
  /\ variant = "drain" /\ Resumes(i, "ss_write")
  /\ ok \/ MayFail
  /\ Does(IF ok THEN Save_Return([St EXCEPT !.sessionFile = TRUE], i, TRUE)
                ELSE Save_Return([St EXCEPT !.faults = @ + 1], i, FALSE))

\* ---- the auto-save timers of the idle-timeout servers
\* the 60 s interval of the while-loop server fires: await
\* this.saveSessionNow(), whatever the login belief
W_AutoSaveDue ==
  /\ variant = "while" /\ ~exited /\ autoSaveInterval
  /\ Does(Spawn(St, "ws_entry", <<"timer_done">>))

WS_StateDone(i, ok) ==
  /\ variant = "while" /\ Resumes(i, "ws_state")
  /\ IF ok
       THEN /\ chains[i].h \in ctxOpen
            /\ Does(Save_Write(St, i, chains[i].stk = <<"timer_done">>,
                               "ws_write"))
       ELSE \/ /\ chains[i].h \notin ctxOpen
               /\ Does(Save_Return(St, i, FALSE))
            \/ /\ chains[i].h \in ctxOpen /\ MayFail
               /\ Does(Save_Return([St EXCEPT !.faults = @ + 1], i, FALSE))

WS_WriteDone(i, ok) ==
  /\ variant = "while" /\ Resumes(i, "ws_write")
  /\ ok \/ MayFail
  /\ Does(IF ok THEN Save_Return([St EXCEPT !.sessionFile = TRUE], i, TRUE)
                ELSE Save_Return([St EXCEPT !.faults = @ + 1], i, FALSE))

\* the 3 min interval of the earlier idle-timeout server fires: it saves
\* only with a context, a true login belief and no batch processing
\* (otherwise the callback does nothing)
S_AutoSaveDue ==
  /\ variant = "chained" /\ ~exited /\ autoSaveInterval
  /\ context # Null /\ isLoggedIn /\ ~processing
  /\ Does([St EXCEPT !.chains = Append(@, [Chain("as_state", <<>>)
                                             EXCEPT !.h = context]),
                     !.saved = @ \cup {context}])

\* its storageState() settles; a failure is swallowed by the catch
AS_StateDone(i, ok) ==
  /\ variant = "chained" /\ Resumes(i, "as_state")
  /\ IF ok
       THEN /\ chains[i].h \in ctxOpen
            /\ Does(Save_Write(St, i, TRUE, "as_write"))
       ELSE \/ /\ chains[i].h \notin ctxOpen
               /\ Does(Finish(St, i))
            \/ /\ chains[i].h \in ctxOpen /\ MayFail
               /\ Does(Finish([St EXCEPT !.faults = @ + 1], i))

AS_WriteDone(i, ok) ==
  /\ variant = "chained" /\ Resumes(i, "as_write")
  /\ ok \/ MayFail
  /\ Does(Finish(IF ok THEN [St EXCEPT !.sessionFile = TRUE]
                       ELSE [St EXCEPT !.faults = @ + 1], i))

\* SIGINT / SIGTERM: gracefulShutdown waits 3 s if a batch is processing,
\* then cleanup(true) and process.exit(0)
Signal ==
  /\ variant = "drain" /\ ~exited /\ MayFail
  /\ LET s1 == [St EXCEPT !.faults = @ + 1,
                          !.atSignal = IF @ = <<>> THEN <<nEnq>> ELSE @] IN
       IF processing
         THEN Does([s1 EXCEPT !.chains = Append(@, Chain("gs_wait", <<>>))])
         ELSE Does(SpawnArg(s1, "cleanup_entry", <<"gs_exit">>, TRUE))

GS_WaitDone(i) ==
  /\ variant = "drain" /\ Resumes(i, "gs_wait")
  /\ Does(CallArg(St, i, "cleanup_entry", "gs_exit", TRUE))

\* ---- the idle-timeout init()
\* the 100 ms timer of a waiting init() fires (rounds that find the flag
\* still up change nothing)
II_Wait(i) ==
  /\ variant # "drain" /\ Resumes(i, "ii_wait")
  /\ ~isInitializing
  /\ Does(II_Polled(St, i))

II_LaunchDone(i, ok) ==
  /\ variant # "drain" /\ Resumes(i, "ii_launch")
  /\ ok \/ MayFail
  /\ Does(II_Launched(St, i, ok))

\* _safeLoadSession settles (with the session or null)
II_LoadDone(i) ==
  /\ variant # "drain" /\ Resumes(i, "ii_load")
  /\ Does(II_Loaded(Load_Logged(St, TRUE), i, Load_Data(sessionFile, TRUE)))

\* reading the session file threw inside _safeLoadSession: logged, null
II_LoadFailed(i) ==
  /\ variant # "drain" /\ Resumes(i, "ii_load")
  /\ MayFail /\ sessionFile
  /\ Does(II_Loaded(Load_Logged([St EXCEPT !.faults = @ + 1], FALSE), i,
                    Load_Data(sessionFile, FALSE)))

\* newContext settles; it cannot be fulfilled on a closed browser
II_NewCtxDone(i, ok) ==
  /\ variant # "drain" /\ Resumes(i, "ii_newctx")
  /\ IF ok
       THEN /\ chains[i].h \in alive
            /\ Does(II_ContextCreated(St, i))
       ELSE \/ /\ chains[i].h \notin alive
               /\ Does(II_Fail(St, i))
            \/ /\ chains[i].h \in alive /\ MayFail
               /\ Does(II_Fail([St EXCEPT !.faults = @ + 1], i))

\* context.close() of the stale context settles
II_CtxClosed(i) ==
  /\ variant # "drain" /\ Resumes(i, "ii_ctxclose")
  /\ Does(II_AfterCtxClose(St, i))

\* ---- the idle-timeout servers
IdleVariant == variant \in {"chained", "while"}
Kinds == {"plain", "page", "logout"}

\* a route handler enqueues an operation of kind k
I_Enqueue(k) ==
  /\ IdleVariant /\ ~exited /\ nEnq < MaxTasks
  /\ IF variant = "chained" THEN Does(S_ProcessQueue(PushKind(St, k)))
                            ELSE Does(W_ProcessQueue(PushKind(St, k)))

\* the operation of the running task settles: it left the login belief li
\* and a login page open or not (lp).  A success under a true belief has
\* called saveSessionNow(); a failure does not turn the belief true; a login
\* page is opened on the context of a page operation; checkScanStatus
\* updates the activity time while it watches a login page
I_OpDone(i, ok, li, lp) ==
  /\ IdleVariant /\ Resumes(i, "pq_op")
  /\ ok \/ (li => isLoggedIn)
  /\ lp => (loginPage \/ chains[i].h \in ctxOpen)
  /\ LET sv == ok /\ li /\ context \in ctxOpen /\ browser \in alive
         s1 == [St EXCEPT !.isLoggedIn = li, !.loginPage = lp,
                          !.saved = IF sv THEN @ \cup {context} ELSE @,
                          !.sessionFile = IF sv THEN TRUE ELSE @,
                          !.idle = IF chains[i].h = Null /\ loginPage
                                        /\ ~isLoggedIn
                                     THEN FALSE ELSE @,
                          !.refreshed = IF chains[i].h = Null /\ loginPage
                                             /\ ~isLoggedIn
                                          THEN TRUE ELSE @]
     IN Does(I_AfterOp(s1, i, ok))

\* context.newPage() settles; it is rejected on a closed context
NP_PageDone(i, ok) ==
  /\ IdleVariant /\ Resumes(i, "np_page")
  /\ IF ok
       THEN /\ chains[i].h \in ctxOpen
            /\ Does(NP_Page(St, i))
       ELSE \/ /\ chains[i].h \notin ctxOpen
               /\ Does(Goto(St, i, "op_catch"))
            \/ /\ chains[i].h \in ctxOpen /\ MayFail
               /\ Does(Goto([St EXCEPT !.faults = @ + 1], i, "op_catch"))

\* the pause before the next attempt is over
Op_RetryDue(i) ==
  /\ IdleVariant /\ Resumes(i, "op_retry")
  /\ Does(Call(St, i, "ii_entry", "np_ready"))

\* fs.pathExists / fs.remove of logout settle; a failure rejects the
\* operation in the chained revision and is logged in the while-loop one
LO_RemoveDone(i, ok) ==
  /\ IdleVariant /\ Resumes(i, "lo_rm")
  /\ ok \/ MayFail
  /\ IF ok THEN Does(LO_Removed(St, i, TRUE))
     ELSE IF variant = "chained"
       THEN Does(I_AfterOp([St EXCEPT !.faults = @ + 1], i, FALSE))
       ELSE Does(LO_Removed([St EXCEPT !.faults = @ + 1], i, FALSE))

LO_PageCloseDone(i) ==
  /\ IdleVariant /\ Resumes(i, "lo_lp")
  /\ Does(LO_PageClosed(St, i))

CX_LoginPageClosed(i) ==
  /\ IdleVariant /\ Resumes(i, "cx_lp")
  /\ Does(CX_AfterLoginPage(St, i))

CX_CtxClosed(i) ==
  /\ IdleVariant /\ Resumes(i, "cx_ctx")
  /\ Does(CX_AfterCtx(St, i))

IC_BrowserClosed(i) ==
  /\ IdleVariant /\ Resumes(i, "ic_br")
  /\ Does(IC_AfterBrowser(St, i))

\* the callbacks of the idle sweep that are awaiting their cleanupContext()
Sweeping ==
  {i \in Chains : chains[i].pc \in {"cx_lp", "cx_ctx"} /\ chains[i].stk = <<>>}

\* the cleanup timer fires (every 60 s while it is armed)
Sweep ==
  /\ IdleVariant /\ ~exited /\ cleanupInterval
  /\ Cardinality(Sweeping) < MaxSweeps
  /\ Does(Sweep_Run(St))

\* idleTimeout goes by with no updateActivity(); when the latest task
\* refreshed lastActivity, idleTimeout has gone by since it began as well
IdleTick ==
  /\ IdleVariant /\ ~exited /\ ~idle
  /\ Does([St EXCEPT !.idle = TRUE,
                     !.quiet = IF refreshed THEN TRUE ELSE @])

\* idleTimeout goes by after the latest task began, which left lastActivity
\* as it was (lastActivity is older still)
TaskGap ==
  /\ IdleVariant /\ ~exited /\ ~quiet /\ idle
  /\ ~processing /\ currentOperation = Null
  /\ Does([St EXCEPT !.quiet = TRUE])

\* more than ten minutes go by with no run of the sweep: the process was
\* suspended, or the timer has not been armed since the manager was built
LongGap ==
  /\ variant = "while" /\ ~exited /\ ~resumed
  /\ Does([St EXCEPT !.resumed = TRUE, !.idle = TRUE, !.quiet = TRUE])

\* SIGINT / SIGTERM (and an uncaught exception in the while-loop revision):
\* gracefulShutdown; the while-loop revision returns at once when one has
\* already begun (shuttingDown)
I_Signal ==
  /\ IdleVariant /\ ~exited /\ MayFail
  /\ LET s1 == [St EXCEPT !.faults = @ + 1,
                          !.atSignal = IF @ = <<>> THEN <<nEnq>> ELSE @] IN
       IF variant = "while" /\ atSignal # <<>>
         THEN Does(s1)
         ELSE Does(Spawn(s1, "gs_loop", <<>>))

\* ---- checkLoginStatus
\* context.newPage() of the drain-and-destroy checkLoginStatus settles; a
\* rejection leaves checkLoginStatus (the call is outside its try)
ST_PageDone(i, ok) ==
  /\ variant = "drain" /\ Resumes(i, "st_page")
  /\ IF ok
       THEN /\ chains[i].h \in ctxOpen
            /\ Does([PageOpened(St, i) EXCEPT !.chains[i].pc = "st_nav"])
       ELSE \/ /\ chains[i].h \notin ctxOpen
               /\ Does(ST_Reject(St, i))
            \/ /\ chains[i].h \in ctxOpen /\ MayFail
               /\ Does(ST_Reject([St EXCEPT !.faults = @ + 1], i))

\* page.goto and the search for the editor settle: r is what the page showed
\* ("found", "notfound") or that the navigation threw; a page of a closed
\* context shows nothing
ST_NavDone(i, r) ==
  /\ Resumes(i, "st_nav")
  /\ r # "throw" => chains[i].h \in ctxOpen
  /\ Does(CASE r = "found" -> ST_Found(St, i)
             [] r = "notfound" -> ST_NotFound(St, i)
             [] OTHER -> ST_NavThrew(St, i))

\* the wait of the catch is over (earlier idle-timeout server): the finally
\* closes the page
ST_WaitDue(i) ==
  /\ variant = "chained" /\ Resumes(i, "st_wait")
  /\ Does(Await(St, i, "st_close_r", chains[i].h))

ST_CloseDone(i) ==
  /\ ~exited
  /\ chains[i].pc \in {"st_close_t", "st_close_f", "st_close_x",
                        "st_close_c", "st_close_r"}
  /\ Does(ST_Closed(St, i))

\* storageState() of the earlier idle-timeout saveSessionNow settles
CS_StateDone(i, ok) ==
  /\ variant = "chained" /\ Resumes(i, "cs_state")
  /\ IF ok
       THEN /\ chains[i].h \in ctxOpen
            /\ Does(Save_Write(St, i, FALSE, "cs_write"))
       ELSE \/ /\ chains[i].h \notin ctxOpen
               /\ Does(Save_Return(St, i, FALSE))
            \/ /\ chains[i].h \in ctxOpen /\ MayFail
               /\ Does(Save_Return([St EXCEPT !.faults = @ + 1], i, FALSE))

CS_WriteDone(i, ok) ==
  /\ variant = "chained" /\ Resumes(i, "cs_write")
  /\ ok \/ MayFail
  /\ Does(IF ok THEN Save_Return([St EXCEPT !.sessionFile = TRUE], i, TRUE)
                ELSE Save_Return([St EXCEPT !.faults = @ + 1], i, FALSE))

\* ---- the page operations of the drain-and-destroy server
\* the user confirms the scan on the phone: the login page goes to weibo.com
UserConfirms ==
  /\ ~exited /\ loginPage /\ ~scanned /\ loginCtx \in ctxOpen
  /\ Does([St EXCEPT !.scanned = TRUE])

\* checkScanStatus: a close of the login page, or page.evaluate, settles
SC_Done(i, r) ==
  /\ variant = "drain" /\ ~exited
  /\ CASE chains[i].pc = "sc_lp_ok" ->
            r = "waiting" /\ Does(SC_LoginPageClosed(St, i, "success"))
       [] chains[i].pc = "sc_lp_err" ->
            r = "waiting" /\ Does(SC_LoginPageClosed(St, i, "error"))
       [] chains[i].pc = "sc_eval" ->
            /\ r # "throw" => chains[i].h \in ctxOpen
            /\ Does(SC_Evaluated(St, i, r))
       [] OTHER -> FALSE

\* getQRCode: closeLoginPage, newPage, goto and the QR search, or the
\* page.close of its catch settles
QR_Done(i, r) ==
  /\ variant = "drain" /\ ~exited
  /\ CASE chains[i].pc = "qr_lp" ->
            r = "qr" /\ Does(QR_NewPage([St EXCEPT !.loginPage = FALSE,
                                                   !.scanned = FALSE], i))
       [] chains[i].pc = "qr_page" ->
            IF chains[i].h \in ctxOpen
              THEN r = "qr" /\ Does(QR_Page(St, i))
              ELSE r = "throw" /\ Does(Op_Settle(St, i, FALSE))
       [] chains[i].pc = "qr_goto" ->
            /\ r # "throw" => chains[i].h \in ctxOpen
            /\ Does(QR_Loaded(St, i, r))
       [] chains[i].pc = "qr_close" ->
            /\ r \in {"qr", "throw"}
            /\ r = "qr" <=> chains[i].h \in ctxOpen
            /\ Does(QR_Closed(St, i, r = "qr"))
       [] OTHER -> FALSE

\* postWeibo: newPage, the filling of the editor, the response to the
\* click, or the page.close of the finally settles
PW_Done(i, ok) ==
  /\ variant = "drain" /\ ~exited
  /\ CASE chains[i].pc = "pw_page" ->
            /\ ok <=> chains[i].h \in ctxOpen
            /\ IF ok THEN Does([PageOpened(St, i)
                                  EXCEPT !.chains[i].pc = "pw_fill"])
                     ELSE Does(Op_Settle(St, i, FALSE))
       [] chains[i].pc = "pw_fill" ->
            /\ ok => chains[i].h \in ctxOpen
            /\ IF ok THEN Does(PW_Click(St, i))
                     ELSE Does(PW_Finally(St, i, FALSE))
       [] chains[i].pc = "pw_resp" ->
            /\ ok => chains[i].h \in ctxOpen
            /\ Does(PW_Finally(St, i, ok))
       [] chains[i].pc = "pw_close_ok" ->
            ok /\ Does(Op_Settle(PageClosed(St, i), i, TRUE))
       [] chains[i].pc = "pw_close_x" ->
            ok /\ Does(Op_Settle(PageClosed(St, i), i, FALSE))
       [] OTHER -> FALSE

\* ---- the scan poll and the QR request of the idle-timeout servers
\* checkScanStatus: waitForLoadState, the search of the page, or a close
\* of the login page settles
SCI_Done(i, r) ==
  /\ IdleVariant /\ ~exited
  /\ CASE chains[i].pc = "sci_load" ->
            r = "waiting" /\ Does(SCI_Loaded(St, i))
       [] chains[i].pc = "sci_eval" ->
            /\ r # "throw" => chains[i].h \in ctxOpen
            /\ Does(SCI_Evaluated(St, i, r))
       [] chains[i].pc = "sci_lp_ok" ->
            r = "waiting" /\ Does(SC_LoginPageClosed(St, i, "success"))
       [] chains[i].pc = "sci_lp_err" ->
            r = "waiting" /\ Does(SC_LoginPageClosed(St, i, "error"))
       [] OTHER -> FALSE

\* getQRCode: the close of the old login page, newPage, or goto and the QR
\* search settles
QRI_Done(i, r) ==
  /\ IdleVariant /\ ~exited
  /\ CASE chains[i].pc = "qri_lp" ->
            r = "qr" /\ Does(QRI_NewPage([St EXCEPT !.loginPage = FALSE,
                                                    !.scanned = FALSE], i))
       [] chains[i].pc = "qri_page" ->
            IF chains[i].h \in ctxOpen
              THEN r = "qr" /\ Does(QRI_Page(St, i))
              ELSE r = "throw" /\ Does(QRI_Catch(St, i))
       [] chains[i].pc = "qri_goto" ->
            /\ r # "throw" => chains[i].h \in ctxOpen
            /\ IF r = "qr" THEN Does(I_AfterOp(St, i, TRUE))
                           ELSE Does(QRI_Catch(St, i))
       [] OTHER -> FALSE

\* postWeibo of the idle-timeout servers: the filling of the editor and the
\* search for the button (r = "ok": done), the response to the click ("ok":
\* it says ok === 1; "fail": another response, none in time, or a throw),
\* the pause before the next attempt, or a page.close settles
PWI_Done(i, r) ==
  /\ IdleVariant /\ ~exited
  /\ CASE chains[i].pc = "pwi_fill" ->
            /\ r = "ok" => chains[i].h \in ctxOpen
            /\ IF r = "ok" THEN Does(PWI_Click(St, i))
                           ELSE Does(PWI_Catch(St, i, TRUE))
       [] chains[i].pc = "pwi_resp" ->
            /\ r = "ok" => chains[i].h \in ctxOpen
            /\ IF r = "ok" THEN Does(PWI_Sent(St, i))
                           ELSE Does(PWI_Catch(St, i, TRUE))
       [] chains[i].pc = "pwi_wait" ->
            r = "ok" /\ Does(PWI_Next(St, i))
       [] chains[i].pc = "pwi_wait_p" ->
            r = "ok" /\ Does(Await(St, i, "pwi_close", chains[i].h))
       [] chains[i].pc = "pwi_close" ->
            r = "ok" /\ Does(PWI_Closed(St, i))
       [] chains[i].pc = "pwi_close_ok" ->
            r = "ok" /\ Does(I_AfterOp(PageClosed(St, i), i, TRUE))
       [] OTHER -> FALSE

\* ---- the queue-less server
\* GET /api/status arrives: the route calls checkLoginStatus()
Q_Request ==
  /\ variant = "direct" /\ ~exited /\ nEnq < SweepTasks
  /\ LET s1 == Spawn([St EXCEPT !.nEnq = @ + 1], "ib_entry", <<"q_ready">>)
     IN Does([s1 EXCEPT !.chains[s1.cur].task = nEnq + 1])

\* the 2 s timer before the next attempt fires
Q_RetryDue(i) ==
  /\ variant = "direct" /\ Resumes(i, "q_retry")
  /\ Does(Q_Attempt(St, i))

IB_LaunchDone(i, ok) ==
  /\ variant = "direct" /\ Resumes(i, "ib_launch")
  /\ ok \/ MayFail
  /\ Does(IB_Launched(St, i, ok))

IB_StaleClosed(i) ==
  /\ variant = "direct" /\ Resumes(i, "ib_stale")
  /\ Does(IB_AfterStale(St, i))

IB_LoadDone(i) ==
  /\ variant = "direct" /\ Resumes(i, "ib_load")
  /\ Does(IB_Loaded(St, i))

\* newContext settles; it cannot be fulfilled on a closed browser
IB_NewCtxDone(i, ok) ==
  /\ variant = "direct" /\ Resumes(i, "ib_newctx")
  /\ IF ok
       THEN /\ chains[i].h \in alive
            /\ Does(IB_ContextCreated(St, i))
       ELSE \/ /\ chains[i].h \notin alive
               /\ Does(IB_Catch(St, i))
            \/ /\ chains[i].h \in alive /\ MayFail
               /\ Does(IB_Catch([St EXCEPT !.faults = @ + 1], i))

IB_CatchCtxClosed(i) ==
  /\ variant = "direct" /\ Resumes(i, "ib_cctx")
  /\ Does(IB_CatchAfterCtx(St, i))

IB_CatchBrowserClosed(i) ==
  /\ variant = "direct" /\ Resumes(i, "ib_cbr")
  /\ Does(IB_CatchAfterBrowser(St, i))

\* context.newPage() settles (rejected on a closed context); then the
\* automation runs on the page: goto, waitForSelector
Q_PageDone(i, ok) ==
  /\ variant = "direct" /\ Resumes(i, "q_page")
  /\ IF ok
       THEN /\ chains[i].h \in ctxOpen
            /\ Does([St EXCEPT !.chains[i].pc = "q_op"])
       ELSE /\ chains[i].h \notin ctxOpen
            /\ Does(Q_Catch(St, i))

\* the automation settles: the login belief is set from what the page
\* showed and the route answers, or it threw (the page is closed by the
\* finally either way)
Q_OpDone(i, ok, li) ==
  /\ variant = "direct" /\ Resumes(i, "q_op")
  /\ IF ok
       THEN Does(Finish(Settle([St EXCEPT !.isLoggedIn = li],
                               chains[i].task, TRUE), i))
       ELSE li = isLoggedIn /\ Does(Q_Catch(St, i))

\* the gracefulShutdown invocations that have not ended
ShuttingDown ==
  {i \in Chains : \/ chains[i].pc \in {"gs_wait", "gs_loop", "gs_poll",
                                        "gs_exit"}
                  \/ \E k \in DOMAIN chains[i].stk :
                       chains[i].stk[k] = "gs_exit"}

\* a further SIGINT / SIGTERM after the first: the drain-and-destroy and the
\* earlier idle-timeout server call gracefulShutdown again; the while-loop
\* server returns at once (if (shuttingDown) return)
SignalAgain ==
  /\ ~exited /\ atSignal # <<>> /\ Cardinality(ShuttingDown) < MaxTriggers
  /\ CASE variant = "drain" ->
            IF processing
              THEN Does([St EXCEPT !.chains = Append(@, Chain("gs_wait", <<>>))])
              ELSE Does(SpawnArg(St, "cleanup_entry", <<"gs_exit">>, TRUE))
       [] variant = "chained" -> Does(Spawn(St, "gs_loop", <<>>))
       [] OTHER -> Does(St)

\* ---- the middleware of the /api routes
\* const AUTH_TOKEN = process.env.AUTH_TOKEN || 'weibo-proxy'
AUTH_TOKEN == "weibo-proxy"

\* the Authorization headers tried, as the words authHeader.split(' ')
\* gives (<<>>: no header), and the requests: GET /api/status and
\* POST /api/logout, a CORS preflight of each, with a JSON body that
\* parses or not
Headers ==
  {<<>>, <<"Bearer", AUTH_TOKEN>>, <<"Bearer", "other">>, <<AUTH_TOKEN>>}
Requests ==
  [method : {"GET", "POST", "OPTIONS"}, route : {"status", "logout"},
   body : {"json", "malformed"}, auth : Headers]

\* const token = authHeader && authHeader.split(' ')[1]; the while-loop
\* server takes parts[0] when the header has one word ("": undefined)
TokenOf(v, h) ==
  IF h = <<>> THEN ""
  ELSE IF Len(h) > 1 THEN h[2]
  ELSE IF v = "while" THEN h[1]
  ELSE ""

\* the middleware in the order of its app.use calls: cors() answers a
\* preflight with 204; express.json() fails on a body that does not parse,
\* and the error handler (Express' own in the drain-and-destroy server)
\* answers 400; authenticateToken answers 401 unless the token is
\* AUTH_TOKEN; 0: next() reaches the route
Middleware(v, rq) ==
  IF rq.method = "OPTIONS" THEN 204
  ELSE IF rq.body = "malformed" THEN 400
  ELSE IF TokenOf(v, rq.auth) = "" \/ TokenOf(v, rq.auth) # AUTH_TOKEN
    THEN 401
  ELSE IF (rq.route = "status") # (rq.method = "GET") THEN 404
  ELSE 0

\* an HTTP request to an /api route arrives: it is answered by the
\* middleware, or its route enqueues checkLoginStatus or the logout
Request(rq) ==
  /\ variant \in {"drain", "chained", "while"} /\ ~exited
  /\ LET st == Middleware(variant, rq)
         s1 == PushKind(St, rq.route) IN
       IF st # 0
         THEN Does([St EXCEPT !.http = <<[req |-> rq, status |-> st]>>])
         ELSE /\ nEnq < SweepTasks
              /\ CASE variant = "drain" -> Does(D_ProcessQueue(s1))
                   [] variant = "chained" -> Does(S_ProcessQueue(s1))
                   [] OTHER -> Does(W_ProcessQueue(s1))

\* ---- failures outside any task
\* the process emits 'uncaughtException': the while-loop server has a
\* listener, which calls gracefulShutdown('uncaughtException'); the other
\* two have none, and Node prints the error and ends the process
UncaughtException ==
  /\ ~exited /\ MayFail
  /\ LET s1 == [St EXCEPT !.faults = @ + 1,
                          !.unhandled = @ \cup {"uncaughtException"}] IN
       IF variant = "while"
         THEN LET s2 == [s1 EXCEPT !.atSignal = IF @ = <<>> THEN <<nEnq>>
                                                            ELSE @] IN
                IF atSignal # <<>> THEN Does(s2)
                                   ELSE Does(Spawn(s2, "gs_loop", <<>>))
         ELSE Does([s1 EXCEPT !.exited = TRUE])

\* the process emits 'unhandledRejection': the listener of the idle-timeout
\* servers logs the reason and returns; the drain-and-destroy server has
\* none, and Node raises it as an uncaught exception
UnhandledRejection ==
  /\ ~exited /\ MayFail
  /\ LET s1 == [St EXCEPT !.faults = @ + 1,
                          !.unhandled = @ \cup {"unhandledRejection"}] IN
       IF variant = "drain" THEN Does([s1 EXCEPT !.exited = TRUE])
                            ELSE Does(s1)

\* the timer of gracefulShutdown's wait loop fires
GS_PollDue(i) ==
  /\ IdleVariant /\ Resumes(i, "gs_poll")
  /\ Does(Goto(St, i, "gs_loop"))

\* a caller invokes browserManager.init() while no browser and no context
\* exist and no earlier call has ended
HCall ==
  /\ nCalls < NCallers
  /\ browser = Null /\ context = Null /\ hres = <<>>
  /\ Does(Spawn([St EXCEPT !.nCalls = @ + 1],
                IF variant = "drain" THEN "init_entry" ELSE "ii_entry",
                <<"caller_done">>))

\* a caller invokes browserManager.init()
\* the call c is noted among those made since the manager was at rest
Called(s, c) ==
  [s EXCEPT !.nCalls = @ + 1,
            !.calls = (IF s.chains = <<>> THEN {} ELSE @) \cup {c}]

CallInit ==
  /\ nCalls < MaxCalls /\ ~exited
  /\ Does(Spawn(Called(St, "init"),
                IF variant = "drain" THEN "init_entry" ELSE "ii_entry",
                <<"caller_done">>))

\* a caller invokes browserManager.cleanup(f)
CallCleanup(f) ==
  /\ nCalls < MaxCalls /\ ~exited
  /\ Does(SpawnArg(Called(St, IF f THEN "cleanup(true)" ELSE "cleanup(false)"),
                   IF variant = "drain" THEN "cleanup_entry" ELSE "ic_entry",
                   <<"caller_done">>, f))

\* while the manager is at rest a route handler has opened a page on the
\* live context and stored it in browserManager.loginPage (the managers
\* that have the field)
CallLoginPage ==
  /\ variant # "chained" /\ ~exited /\ chains = <<>>
  /\ context \in ctxOpen /\ ~loginPage
  /\ Does([St EXCEPT !.loginPage = TRUE, !.calls = {"page"}])

\* ------------------------------------------------------------ the servers
AtStart ==
  /\ queue = <<>> /\ processing = FALSE /\ currentOperation = Null
  /\ immediates = 0
  /\ browser = Null /\ context = Null
  /\ isInitializing = FALSE /\ isLoggedIn = FALSE
  /\ cleanupInterval = FALSE /\ autoSaveInterval = FALSE
  /\ sessionFile \in BOOLEAN
  /\ chains = <<>>
  /\ exited = FALSE
  /\ alive = {} /\ ctxOpen = {} /\ ctxOwner = <<>>
  /\ nBrowsers = 0 /\ launchCalls = 0 /\ newCtxCalls = 0
  /\ faults = 0 /\ nEnq = 0 /\ batch = 0
  /\ started = <<>>
  /\ outcome = [t \in Tasks |-> "pending"]
  /\ settles = [t \in Tasks |-> 0]
  /\ dequeues = [t \in Tasks |-> 0]
  /\ snap = [t \in Tasks |-> NoSnap]
  /\ initFail = {}
  /\ nCalls = 0 /\ hres = <<>>
  /\ kind = [t \in Tasks |-> "plain"]
  /\ idle = FALSE /\ resumed = FALSE /\ loginPage = FALSE
  /\ saved = {} /\ evicted = {}
  /\ atSignal = <<>> /\ calls = {} /\ saveLog = <<>> /\ unhandled = {}
  /\ http = <<>>
  /\ dangling = FALSE
  /\ timers = [cleanup |-> 0, autoSave |-> 0]
  /\ refreshed = TRUE
  /\ loginCtx = Null
  /\ quiet = FALSE
  /\ clicks = [t \in Tasks |-> 0]
  /\ pages = <<>>
  /\ scanned = FALSE

Fresh == AtStart /\ traced = {}

Init == variant \in {"drain", "chained", "while"} /\ Fresh

Next ==
  \/ D_Enqueue
  \/ S_Enqueue
  \/ W_Enqueue
  \/ S_Immediate
  \/ \E i \in Chains, ok, li, rm \in BOOLEAN : D_OpDone(i, ok, li, rm)
  \/ \E i \in Chains, ok \in BOOLEAN : S_OpDone(i, ok)
  \/ \E i \in Chains, ok \in BOOLEAN : W_OpDone(i, ok)
  \/ \E i \in Chains, ok \in BOOLEAN : Init_LaunchDone(i, ok)
  \/ \E i \in Chains, ok \in BOOLEAN : Init_LoadDone(i, ok)
  \/ \E i \in Chains, ok \in BOOLEAN : Init_NewCtxDone(i, ok)
  \/ \E i \in Chains : Cleanup_CtxClosed(i)
  \/ \E i \in Chains : Cleanup_BrowserClosed(i)
  \/ \E i \in Chains, ok \in BOOLEAN : Save_StateDone(i, ok)
  \/ \E i \in Chains, ok \in BOOLEAN : Save_WriteDone(i, ok)

\* the servers under requests and failing I/O calls
Spec == Init /\ [][Next]_vars

\* the servers under requests, failing I/O calls and shutdown signals
ShutdownNext ==
  \/ Next
  \/ Signal
  \/ \E i \in Chains : GS_WaitDone(i)

ShutdownSpec == Init /\ [][ShutdownNext]_vars

\* ---- init() alone, called by NCallers concurrent callers
InitInit == variant \in {"drain", "while"} /\ Fresh

InitNext ==
  \/ HCall
  \/ \E i \in Chains : Init_Wait(i)
  \/ \E i \in Chains, ok \in BOOLEAN : Init_LaunchDone(i, ok)
  \/ \E i \in Chains, ok \in BOOLEAN : Init_LoadDone(i, ok)
  \/ \E i \in Chains, ok \in BOOLEAN : Init_NewCtxDone(i, ok)
  \/ \E i \in Chains : Cleanup_BrowserClosed(i)
  \/ \E i \in Chains : II_Wait(i)
  \/ \E i \in Chains, ok \in BOOLEAN : II_LaunchDone(i, ok)
  \/ \E i \in Chains : II_LoadDone(i)
  \/ \E i \in Chains, ok \in BOOLEAN : II_NewCtxDone(i, ok)

InitSpec == InitInit /\ [][InitNext]_vars

\* ---- the idle-timeout servers under requests, failing I/O calls, the
\* idle sweep and the passing of time
IdleInit == IdleVariant /\ Fresh

IdleNext ==
  \/ \E k \in Kinds : I_Enqueue(k)
  \/ S_Immediate
  \/ \E i \in Chains, ok, li, lp \in BOOLEAN : I_OpDone(i, ok, li, lp)
  \/ \E i \in Chains, ok \in BOOLEAN : NP_PageDone(i, ok)
  \/ \E i \in Chains : Op_RetryDue(i)
  \/ \E i \in Chains, ok \in BOOLEAN : LO_RemoveDone(i, ok)
  \/ \E i \in Chains : LO_PageCloseDone(i)
  \/ \E i \in Chains, ok \in BOOLEAN : II_LaunchDone(i, ok)
  \/ \E i \in Chains : II_LoadDone(i)
  \/ \E i \in Chains, ok \in BOOLEAN : II_NewCtxDone(i, ok)
  \/ \E i \in Chains : CX_LoginPageClosed(i)
  \/ \E i \in Chains : CX_CtxClosed(i)
  \/ Sweep
  \/ IdleTick
  \/ LongGap

IdleSpec == IdleInit /\ [][IdleNext]_vars

\* ---- the while-loop idle-timeout server under requests, the idle sweep and
\* the passing of time, every I/O call succeeding
SweepInit == variant = "while" /\ Fresh

SweepNext ==
  \/ \E k \in Kinds : nEnq < SweepTasks /\ I_Enqueue(k)
  \/ \E i \in Chains, ok, li, lp \in BOOLEAN : I_OpDone(i, ok, li, lp)
  \/ \E i \in Chains, ok \in BOOLEAN : NP_PageDone(i, ok) /\ faults' = faults
  \/ \E i \in Chains : Op_RetryDue(i)
  \/ \E i \in Chains : LO_RemoveDone(i, TRUE)
  \/ \E i \in Chains : LO_PageCloseDone(i)
  \/ \E i \in Chains : II_LaunchDone(i, TRUE)
  \/ \E i \in Chains : II_LoadDone(i)
  \/ \E i \in Chains, ok \in BOOLEAN : II_NewCtxDone(i, ok) /\ faults' = faults
  \/ \E i \in Chains : CX_LoginPageClosed(i)
  \/ \E i \in Chains : CX_CtxClosed(i)
  \/ Sweep
  \/ IdleTick
  \/ LongGap

SweepSpec == SweepInit /\ [][SweepNext]_vars

\* ---- the three servers under requests and a shutdown signal, every I/O
\* call succeeding
GraceNext ==
  \/ nEnq < GraceTasks /\ D_Enqueue
  \/ \E k \in Kinds : nEnq < GraceTasks /\ I_Enqueue(k)
  \/ S_Immediate
  \/ \E i \in Chains, ok, li, rm \in BOOLEAN : D_OpDone(i, ok, li, rm)
  \/ \E i \in Chains, ok, li, lp \in BOOLEAN : I_OpDone(i, ok, li, lp)
  \/ \E i \in Chains : Init_LaunchDone(i, TRUE)
  \/ \E i \in Chains : Init_LoadDone(i, TRUE)
  \/ \E i \in Chains, ok \in BOOLEAN : Init_NewCtxDone(i, ok) /\ faults' = faults
  \/ \E i \in Chains : Cleanup_CtxClosed(i)
  \/ \E i \in Chains : Cleanup_BrowserClosed(i)
  \/ \E i \in Chains, ok \in BOOLEAN : Save_StateDone(i, ok) /\ faults' = faults
  \/ \E i \in Chains : Save_WriteDone(i, TRUE)
  \/ \E i \in Chains, ok \in BOOLEAN : NP_PageDone(i, ok) /\ faults' = faults
  \/ \E i \in Chains : Op_RetryDue(i)
  \/ \E i \in Chains : LO_RemoveDone(i, TRUE)
  \/ \E i \in Chains : LO_PageCloseDone(i)
  \/ \E i \in Chains : II_LaunchDone(i, TRUE)
  \/ \E i \in Chains : II_LoadDone(i)
  \/ \E i \in Chains, ok \in BOOLEAN : II_NewCtxDone(i, ok) /\ faults' = faults
  \/ \E i \in Chains : CX_LoginPageClosed(i)
  \/ \E i \in Chains : CX_CtxClosed(i)
  \/ \E i \in Chains : IC_BrowserClosed(i)
  \/ Signal
  \/ \E i \in Chains : GS_WaitDone(i)
  \/ I_Signal
  \/ \E i \in Chains : GS_PollDue(i)

GraceSpec == Init /\ [][GraceNext]_vars

\* the timers of gracefulShutdown fire and every close() that a cleanup
\* awaits settles; no operation has to settle
GraceFairness ==
  /\ WF_vars(\E i \in Chains : GS_WaitDone(i))
  /\ WF_vars(\E i \in Chains : GS_PollDue(i))
  /\ WF_vars(\E i \in Chains : Cleanup_CtxClosed(i))
  /\ WF_vars(\E i \in Chains : Cleanup_BrowserClosed(i))
  /\ WF_vars(\E i \in Chains : CX_LoginPageClosed(i))
  /\ WF_vars(\E i \in Chains : CX_CtxClosed(i))
  /\ WF_vars(\E i \in Chains : IC_BrowserClosed(i))

\* what bears on the exit: the same servers under one shutdown signal and,
\* in the idle-timeout servers, the operations that call the manager, with
\* the login belief left false (no cleanup and no gracefulShutdown reads
\* it), so that no session is saved
GraceFairNext ==
  \/ nEnq < GraceTasks /\ D_Enqueue
  \/ \E k \in {"page", "logout"} : nEnq < GraceTasks /\ I_Enqueue(k)
  \/ S_Immediate
  \/ \E i \in Chains, ok \in BOOLEAN : D_OpDone(i, ok, FALSE, FALSE)
  \/ \E i \in Chains, ok, lp \in BOOLEAN : I_OpDone(i, ok, FALSE, lp)
  \/ \E i \in Chains : Init_LaunchDone(i, TRUE)
  \/ \E i \in Chains : Init_LoadDone(i, TRUE)
  \/ \E i \in Chains, ok \in BOOLEAN : Init_NewCtxDone(i, ok) /\ faults' = faults
  \/ \E i \in Chains : Cleanup_CtxClosed(i)
  \/ \E i \in Chains : Cleanup_BrowserClosed(i)
  \/ \E i \in Chains, ok \in BOOLEAN : NP_PageDone(i, ok) /\ faults' = faults
  \/ \E i \in Chains : Op_RetryDue(i)
  \/ \E i \in Chains : LO_RemoveDone(i, TRUE)
  \/ \E i \in Chains : LO_PageCloseDone(i)
  \/ \E i \in Chains : II_LaunchDone(i, TRUE)
  \/ \E i \in Chains : II_LoadDone(i)
  \/ \E i \in Chains, ok \in BOOLEAN : II_NewCtxDone(i, ok) /\ faults' = faults
  \/ \E i \in Chains : CX_LoginPageClosed(i)
  \/ \E i \in Chains : CX_CtxClosed(i)
  \/ \E i \in Chains : IC_BrowserClosed(i)
  \/ atSignal = <<>> /\ Signal
  \/ \E i \in Chains : GS_WaitDone(i)
  \/ atSignal = <<>> /\ I_Signal
  \/ \E i \in Chains : GS_PollDue(i)

GraceFairSpec == Init /\ [][GraceFairNext]_vars /\ GraceFairness

\* ---- the BrowserManager of each server alone: init() and cleanup(f) called
\* directly, every I/O call succeeding unless its browser is gone
ManagerNext ==
  \/ CallInit
  \/ \E f \in BOOLEAN : CallCleanup(f)
  \/ CallLoginPage
  \/ \E i \in Chains : Init_Wait(i)
  \/ \E i \in Chains : Init_LaunchDone(i, TRUE)
  \/ \E i \in Chains : Init_LoadDone(i, TRUE)
  \/ \E i \in Chains, ok \in BOOLEAN : Init_NewCtxDone(i, ok) /\ faults' = faults
  \/ \E i \in Chains : Cleanup_CtxClosed(i)
  \/ \E i \in Chains : Cleanup_BrowserClosed(i)
  \/ \E i \in Chains : II_Wait(i)
  \/ \E i \in Chains : II_LaunchDone(i, TRUE)
  \/ \E i \in Chains : II_LoadDone(i)
  \/ \E i \in Chains, ok \in BOOLEAN : II_NewCtxDone(i, ok) /\ faults' = faults
  \/ \E i \in Chains : CX_LoginPageClosed(i)
  \/ \E i \in Chains : CX_CtxClosed(i)
  \/ \E i \in Chains : IC_BrowserClosed(i)

ManagerSpec == Init /\ [][ManagerNext]_vars

\* ---- the three servers under requests, failing saves and the auto-save
\* timers of the idle-timeout servers, the session saves logged; in the
\* idle-timeout servers the operations that create the context and that
\* close it (logout)
SaveInit == variant \in {"drain", "chained", "while"} /\ AtStart /\ traced = {"save"}

\* the callbacks of the auto-save timer that have not ended
TimerChains ==
  {i \in Chains : \/ chains[i].pc \in {"as_state", "as_write"}
                  \/ /\ chains[i].pc \in {"ws_state", "ws_write"}
                     /\ chains[i].stk = <<"timer_done">>}
TimerMayFire == Cardinality(TimerChains) + Len(saveLog) < MaxLog

SaveNext ==
  \/ nEnq < SweepTasks /\ D_Enqueue
  \/ \E k \in {"page", "logout"} : nEnq < SweepTasks /\ I_Enqueue(k)
  \/ S_Immediate
  \/ \E i \in Chains, ok, li \in BOOLEAN : D_OpDone(i, ok, li, FALSE)
  \/ \E i \in Chains, li \in BOOLEAN : I_OpDone(i, TRUE, li, FALSE)
  \/ \E i \in Chains : Init_LaunchDone(i, TRUE)
  \/ \E i \in Chains : Init_LoadDone(i, TRUE)
  \/ \E i \in Chains, ok \in BOOLEAN : Init_NewCtxDone(i, ok) /\ faults' = faults
  \/ \E i \in Chains : Cleanup_CtxClosed(i)
  \/ \E i \in Chains : Cleanup_BrowserClosed(i)
  \/ \E i \in Chains, ok \in BOOLEAN : Save_StateDone(i, ok)
  \/ \E i \in Chains, ok \in BOOLEAN : Save_WriteDone(i, ok)
  \/ \E i \in Chains, ok \in BOOLEAN : NP_PageDone(i, ok) /\ faults' = faults
  \/ \E i \in Chains : LO_RemoveDone(i, TRUE)
  \/ \E i \in Chains : II_LaunchDone(i, TRUE)
  \/ \E i \in Chains : II_LoadDone(i)
  \/ \E i \in Chains, ok \in BOOLEAN : II_NewCtxDone(i, ok) /\ faults' = faults
  \/ \E i \in Chains : CX_CtxClosed(i)
  \/ TimerMayFire /\ W_AutoSaveDue
  \/ \E i \in Chains, ok \in BOOLEAN : WS_StateDone(i, ok)
  \/ \E i \in Chains, ok \in BOOLEAN : WS_WriteDone(i, ok)
  \/ TimerMayFire /\ S_AutoSaveDue
  \/ \E i \in Chains, ok \in BOOLEAN : AS_StateDone(i, ok)
  \/ \E i \in Chains, ok \in BOOLEAN : AS_WriteDone(i, ok)

SaveSpec == SaveInit /\ [][SaveNext]_vars

\* ---- init() alone, called by NCallers concurrent callers, reading the
\* session file failing or not, every other call succeeding; the loads logged
LoadInit == variant \in {"drain", "while"} /\ AtStart /\ traced = {"load"}

LoadNext ==
  \/ HCall
  \/ \E i \in Chains : Init_Wait(i)
  \/ \E i \in Chains : Init_LaunchDone(i, TRUE)
  \/ \E i \in Chains, ok \in BOOLEAN : Init_LoadDone(i, ok)
  \/ \E i \in Chains : Init_NewCtxDone(i, TRUE)
  \/ \E i \in Chains : II_Wait(i)
  \/ \E i \in Chains : II_LaunchDone(i, TRUE)
  \/ \E i \in Chains : II_LoadDone(i)
  \/ \E i \in Chains : II_LoadFailed(i)
  \/ \E i \in Chains : II_NewCtxDone(i, TRUE)

LoadSpec == LoadInit /\ [][LoadNext]_vars

\* ---- the three servers under requests, a shutdown signal or a failure
\* outside any task, every I/O call succeeding
UnhandledNext ==
  \/ GraceNext
  \/ UncaughtException
  \/ UnhandledRejection

UnhandledSpec == Init /\ [][UnhandledNext]_vars

\* ---- the three servers under requests that include logout, every I/O
\* call succeeding
LogoutNext ==
  \/ \E k \in {"plain", "logout"} : D_EnqueueKind(k)
  \/ \E k \in Kinds : I_Enqueue(k)
  \/ S_Immediate
  \/ \E i \in Chains, ok, li \in BOOLEAN : D_PlainDone(i, ok, li)
  \/ \E i \in Chains : D_LogoutDone(i)
  \/ \E i \in Chains, ok, li, lp \in BOOLEAN : I_OpDone(i, ok, li, lp)
  \/ \E i \in Chains : Init_LaunchDone(i, TRUE)
  \/ \E i \in Chains : Init_LoadDone(i, TRUE)
  \/ \E i \in Chains, ok \in BOOLEAN :
       Init_NewCtxDone(i, ok) /\ faults' = faults
  \/ \E i \in Chains : Cleanup_CtxClosed(i)
  \/ \E i \in Chains : Cleanup_BrowserClosed(i)
  \/ \E i \in Chains, ok \in BOOLEAN :
       Save_StateDone(i, ok) /\ faults' = faults
  \/ \E i \in Chains : Save_WriteDone(i, TRUE)
  \/ \E i \in Chains, ok \in BOOLEAN : NP_PageDone(i, ok) /\ faults' = faults
  \/ \E i \in Chains : LO_RemoveDone(i, TRUE)
  \/ \E i \in Chains : LO_PageCloseDone(i)
  \/ \E i \in Chains : II_LaunchDone(i, TRUE)
  \/ \E i \in Chains : II_LoadDone(i)
  \/ \E i \in Chains, ok \in BOOLEAN : II_NewCtxDone(i, ok) /\ faults' = faults
  \/ \E i \in Chains : CX_CtxClosed(i)

LogoutSpec == Init /\ [][LogoutNext]_vars

\* ---- the queue-less server under two overlapping requests and failing
\* launches and context creations (with two requests no context outlives
\* the browser the manager holds, so IB_StaleClosed never resumes)
DirectInit == variant = "direct" /\ Fresh

DirectNext ==
  \/ Q_Request
  \/ \E i \in Chains : Q_RetryDue(i)
  \/ \E i \in Chains, ok \in BOOLEAN : IB_LaunchDone(i, ok)
  \/ \E i \in Chains : IB_LoadDone(i)
  \/ \E i \in Chains, ok \in BOOLEAN : IB_NewCtxDone(i, ok)
  \/ \E i \in Chains : IB_CatchCtxClosed(i)
  \/ \E i \in Chains : IB_CatchBrowserClosed(i)
  \/ \E i \in Chains, ok \in BOOLEAN : Q_PageDone(i, ok)
  \/ \E i \in Chains, ok, li \in BOOLEAN : Q_OpDone(i, ok, li)

DirectSpec == DirectInit /\ [][DirectNext]_vars

\* ---- login checks and logouts under failing calls, in the three servers
\* (no login page is opened, so the logout has none to close)
StatusInit ==
  variant \in {"drain", "chained", "while"} /\ AtStart /\ traced = {"status"}

StatusNext ==
  \/ \E k \in {"status", "logout"} : nEnq < SweepTasks /\ D_EnqueueKind(k)
  \/ \E k \in {"status", "logout"} : nEnq < SweepTasks /\ I_Enqueue(k)
  \/ S_Immediate
  \/ \E i \in Chains : D_LogoutDone(i)
  \/ \E i \in Chains, ok \in BOOLEAN : Init_LaunchDone(i, ok)
  \/ \E i \in Chains, ok \in BOOLEAN : Init_LoadDone(i, ok)
  \/ \E i \in Chains, ok \in BOOLEAN : Init_NewCtxDone(i, ok)
  \/ \E i \in Chains : Cleanup_CtxClosed(i)
  \/ \E i \in Chains : Cleanup_BrowserClosed(i)
  \/ \E i \in Chains, ok \in BOOLEAN : Save_StateDone(i, ok)
  \/ \E i \in Chains, ok \in BOOLEAN : Save_WriteDone(i, ok)
  \/ \E i \in Chains, ok \in BOOLEAN : NP_PageDone(i, ok)
  \/ \E i \in Chains : Op_RetryDue(i)
  \/ \E i \in Chains, ok \in BOOLEAN : LO_RemoveDone(i, ok)
  \/ \E i \in Chains, ok \in BOOLEAN : II_LaunchDone(i, ok)
  \/ \E i \in Chains : II_LoadDone(i)
  \/ \E i \in Chains, ok \in BOOLEAN : II_NewCtxDone(i, ok)
  \/ \E i \in Chains : CX_CtxClosed(i)
  \/ \E i \in Chains, ok \in BOOLEAN : ST_PageDone(i, ok)
  \/ \E i \in Chains, r \in {"found", "notfound", "throw"} : ST_NavDone(i, r)
  \/ \E i \in Chains : ST_WaitDue(i)
  \/ \E i \in Chains : ST_CloseDone(i)
  \/ \E i \in Chains, ok \in BOOLEAN : WS_StateDone(i, ok)
  \/ \E i \in Chains, ok \in BOOLEAN : WS_WriteDone(i, ok)
  \/ \E i \in Chains, ok \in BOOLEAN : CS_StateDone(i, ok)
  \/ \E i \in Chains, ok \in BOOLEAN : CS_WriteDone(i, ok)

StatusSpec == StatusInit /\ [][StatusNext]_vars

\* ---- scan polls, QR requests and logouts in the drain-and-destroy server
ScanInit == variant = "drain" /\ AtStart /\ traced = {"load", "scan"}

ScanNext ==
  \/ \E k \in {"scan", "qr", "logout"} : nEnq < SweepTasks /\ D_EnqueueKind(k)
  \/ \E i \in Chains : D_LogoutDone(i)
  \/ \E i \in Chains : Init_LaunchDone(i, TRUE)
  \/ \E i \in Chains, ok \in BOOLEAN : Init_LoadDone(i, ok)
  \/ \E i \in Chains : Init_NewCtxDone(i, TRUE)
  \/ \E i \in Chains : Cleanup_CtxClosed(i)
  \/ \E i \in Chains : Cleanup_BrowserClosed(i)
  \/ \E i \in Chains, ok \in BOOLEAN : Save_StateDone(i, ok)
  \/ \E i \in Chains, ok \in BOOLEAN : Save_WriteDone(i, ok)
  \/ UserConfirms
  \/ \E i \in Chains, r \in {"waiting", "expired", "throw"} : SC_Done(i, r)
  \/ \E i \in Chains, r \in {"qr", "noqr", "throw"} : QR_Done(i, r)

ScanSpec == ScanInit /\ [][ScanNext]_vars

\* ---- tasks and the idle sweep, the clock advancing between tasks
ActivityInit == IdleVariant /\ AtStart /\ traced = {"scan"}

ActivityNext ==
  \/ \E k \in {"status", "scan", "qr", "logout"} : I_Enqueue(k)
  \/ S_Immediate
  \/ \E i \in Chains, r \in {"found", "notfound", "throw"} : ST_NavDone(i, r)
  \/ \E i \in Chains : ST_WaitDue(i)
  \/ \E i \in Chains : ST_CloseDone(i)
  \/ \E i \in Chains : WS_StateDone(i, TRUE)
  \/ \E i \in Chains : WS_WriteDone(i, TRUE)
  \/ \E i \in Chains : CS_StateDone(i, TRUE)
  \/ \E i \in Chains : CS_WriteDone(i, TRUE)
  \/ UserConfirms
  \/ \E i \in Chains, r \in {"waiting", "expired", "throw"} : SCI_Done(i, r)
  \/ \E i \in Chains, r \in {"qr", "noqr", "throw"} : QRI_Done(i, r)
  \/ \E i \in Chains, ok \in BOOLEAN : NP_PageDone(i, ok) /\ faults' = faults
  \/ \E i \in Chains : Op_RetryDue(i)
  \/ \E i \in Chains : LO_RemoveDone(i, TRUE)
  \/ \E i \in Chains : LO_PageCloseDone(i)
  \/ \E i \in Chains : II_LaunchDone(i, TRUE)
  \/ \E i \in Chains : II_LoadDone(i)
  \/ \E i \in Chains, ok \in BOOLEAN : II_NewCtxDone(i, ok) /\ faults' = faults
  \/ \E i \in Chains : CX_LoginPageClosed(i)
  \/ \E i \in Chains : CX_CtxClosed(i)
  \/ Sweep
  \/ ~processing /\ currentOperation = Null /\ IdleTick
  \/ TaskGap

ActivitySpec == ActivityInit /\ [][ActivityNext]_vars

\* ================================================================ claims
Range(q) == {q[k] : k \in DOMAIN q}
Settled == {t \in Tasks : outcome[t] # "pending"}

\* C1: in every variant, a task pushed before another begins before it:
\* when an operation begins, every task pushed earlier has begun already
C1_FIFO ==
  \A k \in DOMAIN started :
    \A t \in 1..(started[k] - 1) : \E j \in 1..(k - 1) : started[j] = t

\* the second task runs after the first, with the third waiting behind it
C1_Witness ==
  /\ started = <<1, 2>> /\ queue = <<3>>
  /\ \E i \in Chains : chains[i].pc = "pq_op" /\ chains[i].task = 2

\* C2: in every variant at most one operation executes at a time, and an
\* operation begins only after every task dequeued before it has settled
C2_OneAtATime ==
  /\ Cardinality(Running) <= 1
  /\ \A k \in 1..(Len(started) - 1) : outcome[started[k]] # "pending"

\* the chained variant's race: a direct enqueue started the next task while
\* the restart scheduled by setImmediate is still pending
C2_Witness ==
  /\ variant = "chained" /\ immediates > 0 /\ processing
  /\ Cardinality(Running) = 1

\* C3: when an operation fails only its own task is rejected: in that step
\* no other task's outcome changes, the tasks queued behind it stay queued
\* or begin, and the loop goes on (it still holds the flag, or its restart
\* is scheduled, whenever tasks remain); and at all times the queue has
\* dropped by exactly one for each task settled or running
C3_Step ==
  /\ \A t \in Tasks :
       (outcome[t] = "pending" /\ outcome'[t] = "rejected") =>
         /\ \A u \in Tasks \ {t} : outcome'[u] = outcome[u]
         /\ \A u \in Range(queue) : u \in Range(queue') \/ u \in Range(started')
         /\ queue' # <<>> => processing' \/ immediates' > 0
  /\ nEnq' - Len(queue') = Cardinality(Settled') + Cardinality(Running')
C4_ExactlyOnce ==
  \A t \in Tasks :
    /\ settles[t] <= 1 /\ dequeues[t] <= 1
    /\ (outcome[t] # "pending") <=> (settles[t] = 1)
    /\ (dequeues[t] = 1) <=> (t \in Range(started))
    /\ t \in Range(queue) => dequeues[t] = 0
    /\ Cardinality({k \in DOMAIN started : started[k] = t}) <= 1
    /\ dequeues[t] = 1 =>
         \/ settles[t] = 1
         \/ \E i \in Chains : chains[i].pc = "pq_op" /\ chains[i].task = t
    /\ settles[t] = 1 => dequeues[t] = 1

\* every task was dequeued and settled, some fulfilled and some rejected
C4_Witness ==
  /\ \A t \in Tasks : settles[t] = 1 /\ dequeues[t] = 1
  /\ \E t, u \in Tasks : outcome[t] = "fulfilled" /\ outcome[u] = "rejected"

\* C5: there is never a stable state in which the queue is non-empty, no
\* processing loop is running and no restart is scheduled (so that every
\* enqueued task is settled without a further enqueue), whatever the
\* outcome of browser creation
C5_NoStall ==
  ~exited => (queue # <<>> => processing \/ immediates > 0)

\* the drain-and-destroy server at rest with a task left in its queue:
\* init() failed, no chain is left and nothing is scheduled
C5_Witness ==
  /\ variant = "drain" /\ ~exited /\ chains = <<>>
  /\ queue # <<>> /\ ~processing /\ immediates = 0

\* the setImmediate-chained and the while-loop queue never stall
C5_NoStallWithoutInit == variant # "drain" => C5_NoStall

\* C6: in the drain-and-destroy server a failure of init() at the start of
\* processQueue is delivered as the rejection of the task at the head of
\* the queue, which leaves the queue so that the loop goes on with the next
C6_InitFailureRejectsHead ==
  \A t \in initFail : outcome[t] = "rejected" /\ t \notin Range(queue)

\* init() failed and the task at the head is still queued and pending
C6_Witness ==
  \E t \in initFail :
    outcome[t] = "pending" /\ queue # <<>> /\ Head(queue) = t /\ ~processing

\* C7: in the drain-and-destroy server, whenever an operation begins,
\* browser and context are both non-null and no cleanup is in progress
C7_ReadyAtStart ==
  variant = "drain" =>
    \A t \in Range(started) :
      snap[t].b # Null /\ snap[t].c # Null /\ ~snap[t].cleaning

\* without any fault or signal, an operation began while a cleanup was
\* between its first close and its return
C7_Witness ==
  variant = "drain" /\ faults = 0 /\ \E t \in Range(started) : snap[t].cleaning

\* C8: in the drain-and-destroy server the cleanup(true) started when the
\* queue was emptied has completed before the operation of a task of a
\* later processQueue run begins, and that task runs on a browser and a
\* context other than the ones of the earlier run
C8_FreshAfterDrain ==
  variant = "drain" =>
    \A t, u \in Range(started) :
      snap[t].batch < snap[u].batch =>
        /\ ~snap[u].draining
        /\ snap[u].b # snap[t].b /\ snap[u].c # snap[t].c

\* without any fault or signal, a task of a later run began on the context
\* of an earlier run, whose drain cleanup was still closing it
C8_Witness ==
  /\ variant = "drain" /\ faults = 0
  /\ \E t, u \in Range(started) :
       /\ snap[t].batch < snap[u].batch
       /\ snap[u].draining /\ snap[u].c # Null /\ snap[u].c = snap[t].c

\* C9: in the drain-and-destroy server at most one launched browser is
\* alive at any time, and an alive browser is the one browserManager.browser
\* refers to
C9_OneBrowser ==
  variant = "drain" => Cardinality(alive) <= 1 /\ alive \subseteq {browser}

\* without any fault or signal, the server is at rest with a browser alive
\* that browserManager.browser does not refer to
C9_Witness ==
  /\ variant = "drain" /\ faults = 0 /\ chains = <<>> /\ ~exited
  /\ alive # {} /\ browser = Null

\* C10: N concurrent callers of init(), with no browser and no context,
\* cause exactly one chromium.launch and exactly one newContext in total:
\* never more than one of either, and one of each once all have returned
C10_SingleCreation ==
  /\ launchCalls <= 1 /\ newCtxCalls <= 1
  /\ (Len(hres) = NCallers /\ \A k \in DOMAIN hres : hres[k].ok) =>
       launchCalls = 1 /\ newCtxCalls = 1

\* in the drain-and-destroy init a waiter launched again after the creation
\* it waited for had failed
C10_Witness ==
  variant = "drain" /\ launchCalls = 2 /\ faults = 1 /\ Len(hres) >= 1

\* as long as no call fails there is one launch and one newContext
C10_SingleCreationNoFault == faults = 0 => C10_SingleCreation

\* C11: a caller of init() that found a creation in flight returns normally
\* only once that creation has completed: at its return both
\* browserManager.browser and browserManager.context are set
C11_WaiterSeesBoth ==
  \A k \in DOMAIN hres :
    hres[k].w /\ hres[k].ok => hres[k].b # Null /\ hres[k].c # Null

\* without any fault, a waiter of the drain-and-destroy init returned on
\* seeing the browser while the context was still being created
C11_Witness ==
  /\ variant = "drain" /\ faults = 0
  /\ \E k \in DOMAIN hres :
       hres[k].w /\ hres[k].ok /\ hres[k].b # Null /\ hres[k].c = Null

\* C12: when the creation in flight fails (the call that started it throws),
\* every caller that waited on it fails too: none returns normally, and none
\* starts a creation of its own
C12_WaitersShareFailure ==
  (\E k \in DOMAIN hres : ~hres[k].w /\ ~hres[k].ok) =>
    /\ \A k \in DOMAIN hres : hres[k].w => ~hres[k].ok
    /\ launchCalls <= 1

\* in the idle-timeout init the creation failed and a waiter returned
\* normally, with no context
C12_Witness ==
  /\ variant = "while"
  /\ \E k \in DOMAIN hres : ~hres[k].w /\ ~hres[k].ok
  /\ \E k \in DOMAIN hres : hres[k].w /\ hres[k].ok /\ hres[k].c = Null

\* C13: in both idle-timeout servers, while a callback of the idle sweep is
\* evicting a context (from its decision until context.close() has settled
\* and context is null) no operation of a task is getting a page on that
\* context or running against it
C13_NoEvictionUnderTask ==
  \A i \in Sweeping : \A j \in Chains :
    chains[j].task # Null /\ chains[j].pc \in {"np_page", "pq_op"} =>
      chains[j].h # chains[i].h

\* without any fault, an operation runs on its page while the sweep is
\* awaiting the close of the context of that page
C13_Witness ==
  /\ faults = 0
  /\ \E i \in Sweeping : \E j \in Chains :
       /\ chains[i].pc = "cx_ctx" /\ chains[i].h \in ctxOpen
       /\ chains[j].task # Null /\ chains[j].pc = "pq_op"
       /\ chains[j].h = chains[i].h

\* the idle sweep has begun to evict context c in the state with chains cs
Evicting(cs, c) ==
  \E i \in DOMAIN cs :
    cs[i].pc \in {"cx_lp", "cx_ctx"} /\ cs[i].stk = <<>> /\ cs[i].h = c

\* a context exists, no task is processing and idleTimeout has passed
C14_Due == variant = "while" /\ context # Null /\ ~processing /\ idle

\* a sweep callback's context.close() settles: context becomes null, the
\* browser stays the one it was and stays alive
C14_CloseStep ==
  \A i \in Sweeping :
    CX_CtxClosed(i) =>
      /\ context' = Null /\ chains[i].h \notin ctxOpen'
      /\ browser' = browser /\ alive' = alive

\* every context created after an evicted one is on the browser of that one
C14_SameBrowser ==
  \A c \in evicted : \A d \in DOMAIN ctxOwner :
    d > c => ctxOwner[d] = ctxOwner[c]

\* C14 (as stated): in the idle-timeout server of docker-compose.yml, when a
\* context exists, no task is processing and idleTimeout has passed since
\* lastActivity, the next run of the cleanup sweep evicts the context
C14_NextSweepEvicts == [][Sweep /\ C14_Due => Evicting(chains', context)]_vars

\* C14 (amended): ... the next run of the cleanup sweep that does not find
\* more than ten minutes since lastCleanupRun evicts the context; when its
\* context.close() settles the context is null and the browser is the same
\* and still running; a context that a later init() creates is on that same
\* browser
C14_SweepEvicts ==
  /\ [][Sweep /\ C14_Due /\ ~resumed => Evicting(chains', context)]_vars
  /\ [][C14_CloseStep]_vars
  /\ []C14_SameBrowser

\* after a sweep evicted a context, init() has created the next one on the
\* same, still running browser
C14_Witness ==
  /\ variant = "while"
  /\ \E c \in evicted :
       /\ context > c /\ context \in ctxOpen
       /\ ctxOwner[context] = ctxOwner[c] /\ browser = ctxOwner[c]
       /\ browser \in alive /\ launchCalls = 1

\* C15: in the drain-and-destroy server, once a processing loop has ended
\* with an empty queue and everything it started has settled (no task was
\* enqueued since), processing is false, browser and context are null and
\* no browser launched by the manager is alive
C15_TornDownAtRest ==
  (variant = "drain" /\ batch > 0 /\ queue = <<>> /\ chains = <<>> /\ ~exited) =>
    /\ ~processing /\ browser = Null /\ context = Null
    /\ alive = {}

\* without any fault, the server is at rest with an empty queue and every
\* task settled, and a browser process is still running
C15_Witness ==
  /\ variant = "drain" /\ faults = 0
  /\ queue = <<>> /\ chains = <<>> /\ ~processing
  /\ \A t \in 1..nEnq : outcome[t] # "pending"
  /\ browser = Null /\ context = Null /\ alive # {}

\* C16: a task enqueued after the first shutdown signal is never started
\* (tasks are numbered in enqueue order; atSignal holds the number of tasks
\* enqueued before the signal)
C16_NoStartAfterSignal ==
  atSignal # <<>> => \A t \in Range(started) : t <= atSignal[1]

\* gracefulShutdown has begun, a later request was enqueued and its
\* operation is running on a live context
C16_Witness ==
  /\ atSignal # <<>> /\ ~exited
  /\ \E i \in Chains :
       /\ chains[i].pc = "pq_op" /\ chains[i].task > atSignal[1]
       /\ context \in ctxOpen

\* C17: when the process exits, no enqueued task is left pending: each one
\* was run to completion or rejected
C17_NoPendingAtExit ==
  exited => \A t \in 1..nEnq : outcome[t] # "pending"

\* the process exited after a shutdown signal that found one task in
\* flight and another queued, and the queued one was neither started nor
\* rejected
C17_Witness ==
  /\ exited /\ atSignal # <<>> /\ atSignal[1] >= 2
  /\ \E t \in 1..atSignal[1] :
       /\ outcome[t] = "pending" /\ t \notin Range(started)
       /\ t \in Range(queue)

\* C18: once gracefulShutdown has started, the process exits, whether or
\* not the task in flight ever settles and whatever is queued behind it;
\* the wait loop of the idle-timeout servers never goes beyond the MaxPolls
\* timer periods of maxWait
C18_ShutdownExits ==
  /\ (atSignal # <<>>) ~> exited
  /\ [](\A i \in Chains : chains[i].n <= MaxPolls)

\* the process has exited after the full grace period, with the task that
\* was in flight still unsettled and another still queued
C18_Witness ==
  /\ exited /\ processing /\ queue # <<>>
  /\ \E i \in Chains : chains[i].pc = "pq_op"
  /\ \E i \in Chains : chains[i].pc = "gs_exit" /\ chains[i].n = MaxPolls

\* the contexts whose close() a cleanup() or cleanupContext() has called
\* and is awaiting
ClosingIn(cs) ==
  {cs[i].h : i \in {k \in DOMAIN cs : cs[k].pc \in {"cl_ctx", "cx_ctx"}}}

\* C19: when a teardown calls close() on a live context while the login
\* belief is true, a snapshot save has been attempted on that context
\* (gracefulShutdown included)
C19_SaveBeforeClose ==
  [][\A c \in ClosingIn(chains') \ ClosingIn(chains) :
       isLoggedIn' /\ c \in ctxOpen' => c \in saved']_vars

\* the cleanup(true) of gracefulShutdown is closing a live context under a
\* true login belief, and no save was ever attempted on that context
C19_Witness ==
  /\ isLoggedIn /\ ~exited /\ atSignal # <<>>
  /\ \E i \in Chains :
       /\ chains[i].pc \in {"cl_ctx", "cx_ctx"}
       /\ "gs_exit" \in Range(chains[i].stk)
       /\ chains[i].h \in ctxOpen \ saved

\* C20: only a cleanup(true) calls browser.close(): a cleanup(false) closes
\* the context and returns with the browser running and
\* browserManager.browser as it was, in every manager
C20_OnlyForceClosesBrowser ==
  \A i \in Chains : chains[i].pc \in {"cl_br", "ic_br"} => chains[i].arg

\* a cleanup(false) of the drain-and-destroy manager has closed the context
\* and is awaiting browser.close() on the running browser
C20_Witness ==
  /\ variant = "drain"
  /\ \E i \in Chains :
       /\ chains[i].pc = "cl_br" /\ ~chains[i].arg
       /\ chains[i].h = browser /\ browser \in alive /\ context = Null

CleanupCalls == {"cleanup(true)", "cleanup(false)"}

\* at rest after one or more cleanup calls, overlapping or not, and nothing
\* else: context and loginPage are null, and so is browser unless every
\* one of them was a cleanup(false) of an idle-timeout manager
C21_AfterCleanups ==
  (chains = <<>> /\ calls # {} /\ calls \subseteq CleanupCalls) =>
     /\ context = Null
     /\ variant # "chained" => ~loginPage
     /\ (variant = "drain" \/ "cleanup(true)" \in calls) => browser = Null

\* a cleanup call on a manager at rest with browser and context null
\* returns at once, without an error, and leaves the manager as it was
C21_NoOpStep ==
  (/\ chains = <<>> /\ browser = Null /\ context = Null
   /\ nCalls' = nCalls + 1 /\ calls' \subseteq CleanupCalls)
  => /\ chains' = <<>>
     /\ hres' = Append(hres, [ok |-> TRUE, b |-> Null, c |-> Null, w |-> FALSE])
     /\ UNCHANGED <<browser, context, loginPage, alive, ctxOpen,
                    isInitializing, cleanupInterval, autoSaveInterval>>

\* a cleanup call that ends while only cleanup calls are under way returns
\* normally
C21_ReturnStep ==
  (Len(hres') = Len(hres) + 1 /\ calls' \subseteq CleanupCalls)
  => hres'[Len(hres')].ok

\* C21: cleanup() is idempotent and safe on a torn-down manager: on null
\* handles it changes nothing and raises no error, and cleanup calls run
\* one after the other or overlapping leave what a single call leaves
C21_CleanupIdempotent ==
  /\ []C21_AfterCleanups
  /\ [][C21_NoOpStep]_vars
  /\ [][C21_ReturnStep]_vars

\* two cleanup calls overlap on a manager that had a browser and a
\* context: the context is gone and both are awaiting browser.close() on
\* the same browser
C21_Witness ==
  /\ calls # {} /\ calls \subseteq CleanupCalls /\ context = Null
  /\ Len(chains) = 2 /\ chains[1].h = chains[2].h /\ chains[1].h \in alive
  /\ \A i \in Chains : chains[i].pc \in {"cl_br", "ic_br"}

\* the last run of processQueue ended in its outer catch: init() threw, the
\* head it had not taken is still queued and nothing is running any more
C22_AtRestAfterFailedInit ==
  /\ variant = "drain" /\ chains = <<>> /\ ~processing
  /\ queue # <<>> /\ Head(queue) \in initFail

\* C22: in the drain-and-destroy server, once init() has failed and thrown
\* to processQueue, isInitializing is false, browser and context are both
\* null and every browser that was launched has been closed
C22_FailedInitTornDown ==
  C22_AtRestAfterFailedInit =>
    ~isInitializing /\ browser = Null /\ context = Null /\ alive = {}

\* init() has thrown without any failing call, and the browser it launched
\* is still running with no reference left to it
C22_Witness ==
  /\ C22_AtRestAfterFailedInit /\ faults = 0
  /\ ~isInitializing /\ browser = Null /\ context = Null /\ alive # {}

\* init() called by concurrent callers only, with failing launches and
\* failing context creations: a call that throws leaves both handles null,
\* the flag down and no browser running
C22_InitAloneTornDown ==
  (variant = "drain" /\ Len(hres') = Len(hres) + 1 /\ ~hres'[Len(hres')].ok) =>
    ~isInitializing' /\ browser' = Null /\ context' = Null /\ alive' = {}

C22_InitAlone == [][C22_InitAloneTornDown]_vars

\* C23: a failure while taking or writing a snapshot is never propagated:
\* saveSessionNow() returns (true only when the session file was written),
\* no settled task changes its outcome, and the queue loop of the
\* drain-and-destroy server, whose per-task finally made the call, goes on:
\* the next task begins, or with an empty queue the loop ends through its
\* finally; a save made by an auto-save timer leaves the queue and its loop
\* as they were
C23_SaveStep ==
  (Len(saveLog') = Len(saveLog) + 1 /\ saveLog'[Len(saveLog')].ev = "return") =>
    LET e == saveLog'[Len(saveLog')] IN
      /\ e.v => sessionFile'
      /\ \A t \in Tasks : outcome[t] # "pending" => outcome'[t] = outcome[t]
      /\ initFail' = initFail
      /\ variant = "drain" =>
           IF queue # <<>>
             THEN started' = Append(started, Head(queue)) /\ processing'
             ELSE started' = started /\ ~processing'
      /\ e.timer =>
           /\ queue' = queue /\ started' = started /\ outcome' = outcome
           /\ processing' = processing
           /\ currentOperation' = currentOperation

C23_SaveFailureNotPropagated == [][C23_SaveStep]_vars

\* in the drain-and-destroy server a save failed (its storageState or its
\* write was rejected) after the first task had fulfilled, and the second
\* task began; in the while-loop server a save of the timer failed while a
\* task was running
C23_Witness ==
  /\ faults = 1 /\ saveLog # <<>> /\ ~saveLog[Len(saveLog)].v
  /\ saveLog[Len(saveLog)].ev = "return" /\ saveLog[Len(saveLog)].live
  /\ variant = "drain" /\ outcome[1] = "fulfilled" /\ Len(started) = 2

\* C24: when reading the persisted session fails, the load returns null and
\* the error goes no further: the newContext call that follows is made
\* without stored state and with the login belief as it was (false), as when
\* no file exists; no init() call throws, and once all calls have returned
\* the context is there
C24_LoadFailureIsNoState ==
  /\ \A k \in DOMAIN saveLog :
       saveLog[k].ev = "loadFailed" =>
         /\ ~saveLog[k].v
         /\ k < Len(saveLog) /\ saveLog[k + 1].ev = "newContext"
         /\ ~saveLog[k + 1].v /\ ~saveLog[k + 1].li
  /\ \A k \in DOMAIN hres : hres[k].ok
  /\ (chains = <<>> /\ hres # <<>>) => context # Null /\ browser # Null

\* the session file exists, reading it failed, and every init() call has
\* returned normally
C24_Witness ==
  /\ sessionFile /\ faults = 1 /\ chains = <<>> /\ Len(hres) = NCallers
  /\ \E k \in DOMAIN saveLog : saveLog[k].ev = "loadFailed"
  /\ context # Null /\ ~isLoggedIn

\* C25: in every server, once the process has emitted an uncaught exception
\* or an unhandled rejection, gracefulShutdown has been called
C25_UnhandledShutsDown == unhandled # {} => atSignal # <<>>

\* after an unhandled rejection the while-loop server went on as before: no
\* gracefulShutdown, and a task began after it
C25_Witness ==
  /\ variant = "while" /\ unhandled = {"unhandledRejection"}
  /\ atSignal = <<>> /\ ~exited /\ faults = 1
  /\ Running # {} /\ browser # Null

\* the listener of the while-loop server for uncaught exceptions does call
\* gracefulShutdown
C25_WhileUncaughtShutsDown ==
  (variant = "while" /\ "uncaughtException" \in unhandled) => atSignal # <<>>

\* task t began before task u
BeganBefore(t, u) ==
  \E j, k \in DOMAIN started : j < k /\ started[j] = t /\ started[k] = u

\* no task that began after a fulfilled logout was invoked with the context
\* that was live when the logout began
C26_NoLaterTaskOnContext ==
  \A t, u \in Tasks :
    (kind[t] = "logout" /\ outcome[t] = "fulfilled" /\ snap[t].c # Null
       /\ BeganBefore(t, u)) => snap[u].c # snap[t].c

\* when a task begins, the context that was live when an earlier, fulfilled
\* logout began is closed
C26_ClosedBeforeLater ==
  \A t \in Tasks :
    (kind[t] = "logout" /\ outcome'[t] = "fulfilled" /\ snap[t].c # Null
       /\ t \in Range(started) /\ Len(started') > Len(started)) =>
      snap[t].c \notin ctxOpen'

\* the login belief is false in the step that fulfils a logout
C26_BeliefFalseAtSettle ==
  \A t \in Tasks :
    (kind[t] = "logout" /\ outcome[t] = "pending"
       /\ outcome'[t] = "fulfilled") => ~isLoggedIn'

\* C26: in every queued server, after a logout task fulfils, the context
\* that was live during the logout is closed before the operation of any
\* later task runs, so that no later task runs on it, and the login belief
\* is false when the logout settles
C26_LogoutDestroysContext ==
  /\ []C26_NoLaterTaskOnContext
  /\ [][C26_ClosedBeforeLater]_vars
  /\ [][C26_BeliefFalseAtSettle]_vars

\* in the drain-and-destroy server a task queued behind a fulfilled logout is
\* running on the context of the logout, which is still open
C26_Witness ==
  /\ variant = "drain" /\ faults = 0
  /\ \E t, u \in Tasks :
       /\ kind[t] = "logout" /\ outcome[t] = "fulfilled"
       /\ BeganBefore(t, u) /\ outcome[u] = "pending"
       /\ snap[t].c # Null /\ snap[u].c = snap[t].c
       /\ context = snap[t].c /\ context \in ctxOpen

\* the idle-timeout servers conform: their logout awaits cleanup(false)
C26_IdleLogoutDestroysContext ==
  [][IdleVariant => C26_ClosedBeforeLater]_vars

\* chain c is a processQueue invocation that has not reached the finally
\* that releases the flag: it is in the iteration of a task, or in a call
\* (init, saveSessionNow) that returns into the loop
C27_InLoop(c) ==
  \/ c.task # Null \/ c.pc = "pq_op"
  \/ c.stk # <<>> /\ c.stk[Len(c.stk)] = "pq_loop"

\* C27: what getStatus() returns is consistent with the queue whenever a
\* handler can call it: queueLength is the number of tasks pushed and not
\* yet shifted (and the queue holds exactly those); currentOperation is
\* non-null only while processing is true, and is then the task shifted
\* last; when no processQueue loop is running, processing is false and
\* currentOperation is null
C27_StatusConsistent ==
  /\ Len(queue) = nEnq - Len(started)
  /\ Range(queue) = (1..nEnq) \ Range(started)
  /\ currentOperation # Null =>
       processing /\ started # <<>>
         /\ currentOperation = started[Len(started)]
  /\ (\A i \in Chains : ~C27_InLoop(chains[i])) =>
       ~processing /\ currentOperation = Null

\* a task is running with the flag up, after an earlier one settled and with
\* another one waiting in the queue
C27_Witness ==
  /\ processing /\ currentOperation # Null /\ Len(started) >= 2
  /\ queue # <<>> /\ currentOperation = started[Len(started)]
  /\ outcome[started[1]] # "pending" /\ outcome[currentOperation] = "pending"

\* the requests whose automation is running on a page
C28_Automating == {i \in Chains : chains[i].pc = "q_op"}

\* C28: in the queue-less server overlapping requests never run automation
\* at the same time, and as long as no browser and no context has been
\* closed at most one chromium.launch and at most one newContext have been
\* made
C28_OneAutomationOneSession ==
  /\ Cardinality(C28_Automating) <= 1
  /\ (Cardinality(alive) = nBrowsers /\ Cardinality(ctxOpen) = Len(ctxOwner)) =>
       launchCalls <= 1 /\ newCtxCalls <= 1

\* two overlapping requests each launched a browser and created a context,
\* nothing failed and nothing was closed, and both automations are running
C28_Witness ==
  /\ variant = "direct" /\ faults = 0
  /\ Cardinality(C28_Automating) = 2
  /\ launchCalls = 2 /\ newCtxCalls = 2
  /\ Cardinality(alive) = 2 /\ Cardinality(ctxOpen) = 2

\* the entries of the log for the writes of the session file that the
\* auto-save timer started
C29_TimerWrites ==
  {k \in DOMAIN saveLog : saveLog[k].ev = "write" /\ saveLog[k].timer}

\* C29: the auto-save timer writes the session file only when the context
\* is alive and the login belief is true: every write it starts finds a
\* live context and isLoggedIn true
C29_TimerSavesOnlyLoggedIn ==
  \A k \in C29_TimerWrites : saveLog[k].live /\ saveLog[k].li

\* the timer of the idle-timeout server wrote the session file of a live
\* context, and the write succeeded, while isLoggedIn was false; no call
\* failed
C29_Witness ==
  /\ variant = "while" /\ faults = 0
  /\ \E k \in C29_TimerWrites :
       /\ saveLog[k].live /\ ~saveLog[k].li
       /\ k < Len(saveLog)
       /\ saveLog[k + 1].ev = "return" /\ saveLog[k + 1].timer
       /\ saveLog[k + 1].v

\* what holds: the timer writes only the state of a context that is open
C29_TimerSavesOnlyLive ==
  \A k \in C29_TimerWrites : saveLog[k].live

\* the entries of the log at which a checkLoginStatus task settled
C30_Settles == {k \in DOMAIN saveLog : saveLog[k].ev \in {"fulfil", "reject"}}

C30_IdleRejectIsFalse ==
  variant # "drain" =>
    \A k \in C30_Settles : saveLog[k].ev = "reject" => ~saveLog[k].li

\* the newContext calls of the log that follow a returned loadSession()
C31_Creations ==
  {k \in DOMAIN saveLog : k > 1 /\ saveLog[k].ev = "newContext"}

\* C31: in the drain-and-destroy server a context created from a persisted
\* session finds isLoggedIn set true, one created without leaves the belief
\* as loadSession() found it, and a scan poll that finds the belief true
\* returns 'success' without looking at a page
C31_OptimisticBelief ==
  /\ \A k \in C31_Creations :
       /\ saveLog[k - 1].ev \in {"load", "loadFailed"}
       /\ saveLog[k].v => saveLog[k].li
       /\ ~saveLog[k].v => saveLog[k].li = saveLog[k - 1].li
  /\ \A k \in DOMAIN saveLog :
       saveLog[k].ev = "scan" /\ saveLog[k].li =>
         saveLog[k].status = "success" /\ ~saveLog[k].inspected

\* a context was created from the persisted session while the belief was
\* false, no login page was ever opened, and the scan poll that ran on it
\* returned 'success'
C31_Witness ==
  \E k \in C31_Creations :
    /\ saveLog[k].v /\ ~saveLog[k - 1].li
    /\ k < Len(saveLog) /\ saveLog[k + 1].ev = "scan"
    /\ saveLog[k + 1].status = "success" /\ ~saveLog[k + 1].inspected
    /\ \A t \in Tasks : kind[t] # "qr"

\* C32: in the idle-timeout servers the idle sweep decides to close the
\* context only when more than idleTimeout has passed since the latest task
\* began to run
C32_SweepOnlyWhenQuiet ==
  [][Cardinality(Sweeping') > Cardinality(Sweeping) => quiet]_vars

\* the sweep is closing the context although less than idleTimeout has
\* passed since the last task, a scan poll answered from the cached belief,
\* fulfilled; no call failed
C32_Witness ==
  /\ Sweeping # {} /\ ~quiet /\ faults = 0 /\ isLoggedIn
  /\ started # <<>> /\ queue = <<>> /\ ~processing
  /\ kind[started[Len(started)]] = "scan"
  /\ outcome[started[Len(started)]] = "fulfilled"
  /\ saveLog # <<>> /\ saveLog[Len(saveLog)].li

\* ---- the idle-timeout servers under requests that include logout, the
\* idle sweep and shutdown signals, every I/O call succeeding
TimerInit == IdleVariant /\ Fresh

TimerNext ==
  \/ \E k \in Kinds : nEnq < GraceTasks /\ I_Enqueue(k)
  \/ S_Immediate
  \/ \E i \in Chains, ok, li, lp \in BOOLEAN : I_OpDone(i, ok, li, lp)
  \/ \E i \in Chains, ok \in BOOLEAN : NP_PageDone(i, ok) /\ faults' = faults
  \/ \E i \in Chains : Op_RetryDue(i)
  \/ \E i \in Chains : LO_RemoveDone(i, TRUE)
  \/ \E i \in Chains : LO_PageCloseDone(i)
  \/ \E i \in Chains : II_LaunchDone(i, TRUE)
  \/ \E i \in Chains : II_LoadDone(i)
  \/ \E i \in Chains, ok \in BOOLEAN : II_NewCtxDone(i, ok) /\ faults' = faults
  \/ \E i \in Chains : CX_LoginPageClosed(i)
  \/ \E i \in Chains : CX_CtxClosed(i)
  \/ \E i \in Chains : IC_BrowserClosed(i)
  \/ I_Signal
  \/ \E i \in Chains : GS_PollDue(i)
  \/ Sweep
  \/ IdleTick

TimerSpec == TimerInit /\ [][TimerNext]_vars

\* C33: in the idle-timeout servers the cleanup timer and the auto-save
\* timer are both armed or both not armed in every state, at most one
\* interval of each is set at a time, and no cleanup() has returned with a
\* timer armed
C33_TimersTogether ==
  /\ cleanupInterval <=> autoSaveInterval
  /\ timers.cleanup <= 1 /\ timers.autoSave <= 1
  /\ ~dangling

\* a shutdown's cleanup(true) has returned while both timers were armed: an
\* init() that was creating the context when cleanup() cleared the timers
\* finished during browser.close() and armed them again
C33_Witness ==
  /\ dangling /\ cleanupInterval /\ autoSaveInterval
  /\ timers.cleanup = 1 /\ timers.autoSave = 1
  /\ atSignal # <<>> /\ context # Null /\ browser = Null

\* ---- the drain-and-destroy server under requests that include logout
\* and failing logouts and saves, with the log of the per-task finally
FinallyInit == variant = "drain" /\ AtStart /\ traced = {"finally"}

FinallyNext ==
  \/ \E k \in {"plain", "logout"} : nEnq < SweepTasks /\ D_EnqueueKind(k)
  \/ \E i \in Chains, ok, li \in BOOLEAN : D_PlainDone(i, ok, li)
  \/ \E i \in Chains : D_LogoutDone(i)
  \/ \E i \in Chains : D_LogoutFailed(i)
  \/ \E i \in Chains : Init_LaunchDone(i, TRUE)
  \/ \E i \in Chains : Init_LoadDone(i, TRUE)
  \/ \E i \in Chains : Init_NewCtxDone(i, TRUE)
  \/ \E i \in Chains : Cleanup_CtxClosed(i)
  \/ \E i \in Chains : Cleanup_BrowserClosed(i)
  \/ \E i \in Chains, ok \in BOOLEAN : Save_StateDone(i, ok)
  \/ \E i \in Chains, ok \in BOOLEAN : Save_WriteDone(i, ok)

FinallySpec == FinallyInit /\ [][FinallyNext]_vars

\* C34: in the drain-and-destroy server saveSessionNow() is called right
\* after a task settles when the login belief is true at that moment, and
\* at no other time; from the moment a logout task fulfils until the next
\* task begins there is no session file
C34_SaveIffLoggedIn ==
  /\ \A k \in DOMAIN saveLog :
       /\ saveLog[k].ev = "settled" /\ saveLog[k].li =>
            k < Len(saveLog) /\ saveLog[k + 1].ev = "attempt"
       /\ saveLog[k].ev = "attempt" =>
            k > 1 /\ saveLog[k - 1].ev = "settled" /\ saveLog[k - 1].li
  /\ started # <<>> /\ kind[started[Len(started)]] = "logout"
       /\ outcome[started[Len(started)]] = "fulfilled"
       => ~sessionFile /\ ~isLoggedIn

\* a task settled with the belief true and the session was saved to the
\* file; the logout task after it removed the file and settled, no save
\* was attempted after it, and the queue has drained
C34_Witness ==
  /\ Len(saveLog) = 3 /\ saveLog[1].li /\ saveLog[2].ev = "attempt"
  /\ saveLog[3].ev = "settled" /\ ~saveLog[3].li
  /\ started = <<1, 2>> /\ kind[2] = "logout" /\ outcome[2] = "fulfilled"
  /\ ~sessionFile /\ ~processing /\ chains = <<>> /\ faults = 0

\* C35: in the idle-timeout servers there is no session file from the
\* moment a logout task fulfils until the next task begins
C35_NoFileAfterLogout ==
  IdleVariant /\ started # <<>> /\ kind[started[Len(started)]] = "logout"
    /\ outcome[started[Len(started)]] = "fulfilled"
    => ~sessionFile

\* the logout task removed the session file and fulfilled, no task began
\* after it, and the file is there again: a callback of the auto-save timer
\* wrote it; no call failed
C35_Witness ==
  /\ IdleVariant /\ faults = 0 /\ sessionFile /\ ~isLoggedIn
  /\ started # <<>> /\ kind[started[Len(started)]] = "logout"
  /\ outcome[started[Len(started)]] = "fulfilled"
  /\ saveLog # <<>> /\ saveLog[Len(saveLog)].ev = "return"
  /\ saveLog[Len(saveLog)].timer /\ saveLog[Len(saveLog)].v

\* C36: in the drain-and-destroy server, once a checkLoginStatus task has
\* fulfilled with false, a later task begins with isLoggedIn true only if a
\* checkLoginStatus fulfilled with true in between (the tasks of StatusSpec
\* are login checks and logouts: no scan login occurs)
C36_FalseStaysFalse ==
  variant = "drain" =>
    \A k, m \in DOMAIN saveLog :
      k < m /\ saveLog[k].ev = "fulfil" /\ ~saveLog[k].v
        /\ saveLog[m].ev = "begin" /\ saveLog[m].li
      => \E j \in (k + 1)..(m - 1) : saveLog[j].ev = "fulfil" /\ saveLog[j].v

\* a login check fulfilled with false, the queue drained and the browser was
\* destroyed; the next login check began with isLoggedIn true, set by
\* createContext from the session file that was still there; no call failed
C36_Witness ==
  /\ variant = "drain" /\ faults = 0 /\ sessionFile /\ batch = 2
  /\ \A t \in Tasks : kind[t] # "logout"
  /\ Len(saveLog) >= 3
  /\ saveLog[2].ev = "fulfil" /\ ~saveLog[2].v /\ ~saveLog[2].li
  /\ saveLog[3].ev = "begin" /\ saveLog[3].li

\* ---- the three servers under login checks and postWeibo requests, every
\* I/O call succeeding; what the pages show and what the send request
\* answers is open
PostInit == variant \in {"drain", "chained", "while"} /\ Fresh

PostNext ==
  \/ \E k \in {"status", "post"} : nEnq < SweepTasks /\ D_EnqueueKind(k)
  \/ \E k \in {"status", "post"} : nEnq < SweepTasks /\ I_Enqueue(k)
  \/ S_Immediate
  \/ \E i \in Chains : Init_LaunchDone(i, TRUE)
  \/ \E i \in Chains : Init_LoadDone(i, TRUE)
  \/ \E i \in Chains : Init_NewCtxDone(i, TRUE)
  \/ \E i \in Chains : Cleanup_CtxClosed(i)
  \/ \E i \in Chains : Cleanup_BrowserClosed(i)
  \/ \E i \in Chains : Save_StateDone(i, TRUE)
  \/ \E i \in Chains : Save_WriteDone(i, TRUE)
  \/ \E i \in Chains : NP_PageDone(i, TRUE)
  \/ \E i \in Chains : Op_RetryDue(i)
  \/ \E i \in Chains : II_LaunchDone(i, TRUE)
  \/ \E i \in Chains : II_LoadDone(i)
  \/ \E i \in Chains : II_NewCtxDone(i, TRUE)
  \/ \E i \in Chains : ST_PageDone(i, TRUE)
  \/ \E i \in Chains, r \in {"found", "notfound", "throw"} : ST_NavDone(i, r)
  \/ \E i \in Chains : ST_WaitDue(i)
  \/ \E i \in Chains : ST_CloseDone(i)
  \/ \E i \in Chains : WS_StateDone(i, TRUE)
  \/ \E i \in Chains : WS_WriteDone(i, TRUE)
  \/ \E i \in Chains : CS_StateDone(i, TRUE)
  \/ \E i \in Chains : CS_WriteDone(i, TRUE)
  \/ \E i \in Chains, ok \in BOOLEAN : PW_Done(i, ok)
  \/ \E i \in Chains, r \in {"ok", "fail"} : PWI_Done(i, r)

PostSpec == PostInit /\ [][PostNext]_vars

\* C37: no postWeibo request clicks the send button more than once
C37_OneClick == \A t \in Tasks : clicks[t] <= 1

\* a postWeibo task of an idle-timeout server has clicked the send button
\* twice: the response to the first click was not the one waited for, and
\* after the pause the second attempt filled the editor and clicked again
C37_Witness ==
  /\ IdleVariant /\ faults = 0
  /\ \E t \in Tasks : kind[t] = "post" /\ clicks[t] = 2
                        /\ outcome[t] = "fulfilled"

\* ---- the three servers under login checks, QR requests and postWeibo
\* requests, every I/O call succeeding, with the pages that are open
PageInit ==
  variant \in {"drain", "chained", "while"} /\ AtStart /\ traced = {"pages"}

PageNext ==
  \/ \E k \in {"status", "qr", "post"} : nEnq < SweepTasks /\ D_EnqueueKind(k)
  \/ \E k \in {"status", "qr", "post"} : nEnq < SweepTasks /\ I_Enqueue(k)
  \/ S_Immediate
  \/ \E i \in Chains : Init_LaunchDone(i, TRUE)
  \/ \E i \in Chains : Init_LoadDone(i, TRUE)
  \/ \E i \in Chains : Init_NewCtxDone(i, TRUE)
  \/ \E i \in Chains : Cleanup_CtxClosed(i)
  \/ \E i \in Chains : Cleanup_BrowserClosed(i)
  \/ \E i \in Chains : Save_StateDone(i, TRUE)
  \/ \E i \in Chains : Save_WriteDone(i, TRUE)
  \/ \E i \in Chains : NP_PageDone(i, TRUE)
  \/ \E i \in Chains : Op_RetryDue(i)
  \/ \E i \in Chains : II_LaunchDone(i, TRUE)
  \/ \E i \in Chains : II_LoadDone(i)
  \/ \E i \in Chains : II_NewCtxDone(i, TRUE)
  \/ \E i \in Chains : ST_PageDone(i, TRUE)
  \/ \E i \in Chains, r \in {"found", "notfound", "throw"} : ST_NavDone(i, r)
  \/ \E i \in Chains : ST_WaitDue(i)
  \/ \E i \in Chains : ST_CloseDone(i)
  \/ \E i \in Chains : WS_StateDone(i, TRUE)
  \/ \E i \in Chains : WS_WriteDone(i, TRUE)
  \/ \E i \in Chains : CS_StateDone(i, TRUE)
  \/ \E i \in Chains : CS_WriteDone(i, TRUE)
  \/ \E i \in Chains, ok \in BOOLEAN : PW_Done(i, ok)
  \/ \E i \in Chains, r \in {"ok", "fail"} : PWI_Done(i, r)
  \/ \E i \in Chains, r \in {"qr", "noqr", "throw"} : QR_Done(i, r)
  \/ \E i \in Chains, r \in {"qr", "noqr", "throw"} : QRI_Done(i, r)

PageSpec == PageInit /\ [][PageNext]_vars

\* C38: once a task has settled, no page it opened is still open in a
\* context that is open, the login page apart
C38_PagesClosed ==
  \A k \in DOMAIN pages :
    outcome[pages[k].t] = "pending" \/ pages[k].c \notin ctxOpen

\* a getQRCode task of the while-loop server has fulfilled; the login page
\* is open, and so is the page its browserManager.newPage() call returned,
\* in the same context; nothing is running and no call failed
C38_Witness ==
  /\ variant = "while" /\ faults = 0 /\ ~processing /\ queue = <<>>
  /\ LoginPageOpen(St)
  /\ \E k \in DOMAIN pages :
       /\ kind[pages[k].t] = "qr" /\ outcome[pages[k].t] = "fulfilled"
       /\ pages[k].c = context /\ context \in ctxOpen

\* ---- the three servers under requests and repeated shutdown signals,
\* every I/O call succeeding
TriggerNext ==
  \/ GraceNext
  \/ SignalAgain

TriggerSpec == Init /\ [][TriggerNext]_vars

\* C39: at most one gracefulShutdown invocation is under way at any time
C39_OneShutdown == Cardinality(ShuttingDown) <= 1

\* two gracefulShutdown invocations are both inside cleanup(true), each
\* awaiting a close, in a server without the shuttingDown flag
C39_Witness ==
  /\ variant \in {"drain", "chained"} /\ ~exited
  /\ Cardinality({i \in ShuttingDown :
                    chains[i].pc \in {"cl_ctx", "cl_br", "cx_ctx",
                                      "ic_br"}}) = 2

\* ---- the three servers under HTTP requests to /api/status and
\* /api/logout with and without the token, every I/O call succeeding
AuthNext ==
  \/ \E rq \in Requests : Request(rq)
  \/ S_Immediate
  \/ \E i \in Chains : D_LogoutDone(i)
  \/ \E i \in Chains : Init_LaunchDone(i, TRUE)
  \/ \E i \in Chains : Init_LoadDone(i, TRUE)
  \/ \E i \in Chains : Init_NewCtxDone(i, TRUE)
  \/ \E i \in Chains : Cleanup_CtxClosed(i)
  \/ \E i \in Chains : Cleanup_BrowserClosed(i)
  \/ \E i \in Chains : Save_StateDone(i, TRUE)
  \/ \E i \in Chains : Save_WriteDone(i, TRUE)
  \/ \E i \in Chains : NP_PageDone(i, TRUE)
  \/ \E i \in Chains : LO_RemoveDone(i, TRUE)
  \/ \E i \in Chains : II_LaunchDone(i, TRUE)
  \/ \E i \in Chains : II_LoadDone(i)
  \/ \E i \in Chains : II_NewCtxDone(i, TRUE)
  \/ \E i \in Chains : CX_CtxClosed(i)
  \/ \E i \in Chains : ST_PageDone(i, TRUE)
  \/ \E i \in Chains, r \in {"found", "notfound"} : ST_NavDone(i, r)
  \/ \E i \in Chains : ST_CloseDone(i)
  \/ \E i \in Chains : WS_StateDone(i, TRUE)
  \/ \E i \in Chains : WS_WriteDone(i, TRUE)
  \/ \E i \in Chains : CS_StateDone(i, TRUE)
  \/ \E i \in Chains : CS_WriteDone(i, TRUE)

AuthSpec == Init /\ [][AuthNext]_vars

\* the Authorization header holds the token
HasToken(h) == \E k \in DOMAIN h : h[k] = AUTH_TOKEN

\* a request whose header lacks the token changes nothing but the answer
\* it gets
C40_DeniedNoEffect ==
  [][http' # http /\ ~HasToken(http'[1].req.auth)
       => [St EXCEPT !.http = <<>>]' = [St EXCEPT !.http = <<>>]]_vars

\* C40: a request to an /api route whose Authorization header lacks the
\* token is answered with 401, and it changes nothing else
C40_Denied401 ==
  /\ [](http # <<>> /\ ~HasToken(http[1].req.auth) => http[1].status = 401)
  /\ C40_DeniedNoEffect

\* a POST /api/logout with no Authorization header and a body that does not
\* parse has been answered with 400, by the body parser; a task is running
C40_Witness ==
  /\ http # <<>> /\ http[1].req.auth = <<>> /\ http[1].req.method = "POST"
  /\ http[1].req.route = "logout" /\ http[1].req.body = "malformed"
  /\ http[1].status = 400 /\ processing

====
